---- MODULE Spec2Model ----
(***************************************************************************)
(* Model of the pm-service back end (periods, BSC / MPM indicators,         *)
(* actuals and dashboards) at the level of its services and repositories.   *)
(* A table is a sequence of rows; a row's id is its position, and rows are  *)
(* appended in creation order, so a greater id is a later created_at.       *)
(***************************************************************************)
EXTENDS Integers, Sequences, FiniteSets, TLC

VARIABLES
    periods,        \* table period
    bscIndicators,  \* table bsc_indicator
    bscActuals,     \* table bsc_actual
    mpmIndicators,  \* table mpm_indicator
    mpmActuals,     \* table mpm_actual
    mpmActionPlans, \* table mpm_action_plan
    mpmQuarterlyData, \* table mpm_quarterly_data
    mpmMonthlyTargets, \* table mpm_monthly_target
    inflight,       \* the update_status requests in flight: where each one is
    last,           \* the last service call: its name, arguments and outcome
    response        \* what the last call returned, when it was a dashboard

vars == <<periods, bscIndicators, bscActuals, mpmIndicators, mpmActuals,
          mpmActionPlans, mpmQuarterlyData, mpmMonthlyTargets, inflight,
          last, response>>

\* what the operations on periods, indicators and actuals leave alone: the
\* tables of action plans, quarterly data and monthly targets, and the
\* requests in flight
planVars == <<mpmActionPlans, mpmQuarterlyData, mpmMonthlyTargets, inflight>>

(***************************************************************************)
(* Bounds of the model.                                                    *)
(***************************************************************************)
MaxPeriods == 2
MaxIndicators == 2
MaxActuals == 2
MaxRows == 3
MaxRequests == 2

\* None, for the optional fields that hold strings
None == "None"

\* A payload is the record of the fields the request sets (dict(exclude_unset)):
\* a field of the schema is either absent or has one of the values of S.
NoFields == [f \in {} |-> TRUE]
Opt(field, S) == {NoFields} \cup {[f \in {field} |-> v] : v \in S}
Merge(r, t) ==
    [f \in DOMAIN r \cup DOMAIN t |-> IF f \in DOMAIN r THEN r[f] ELSE t[f]]

(***************************************************************************)
(* decimal.Decimal.  A value is its coefficient (decimal digits, most      *)
(* significant first) and exponent, kept normalised (no leading or         *)
(* trailing zero digit, zero is the empty coefficient), so that equal      *)
(* records are equal numbers.                                              *)
(***************************************************************************)
\* the default context's precision, in significant digits
Prec == 28

\* Coefficients are multiplied and added in limbs of three digits (base 1000).

RECURSIVE IntOf(_)
IntOf(c) == IF c = <<>> THEN 0 ELSE 10 * IntOf(SubSeq(c, 1, Len(c) - 1)) + c[Len(c)]

RECURSIVE Pow10(_)
Pow10(k) == IF k = 0 THEN 1 ELSE 10 * Pow10(k - 1)

Zeros(k) == [i \in 1..k |-> 0]

Max(S) == CHOOSE m \in S : \A n \in S : n <= m
Min(S) == CHOOSE m \in S : \A n \in S : m <= n

NonZero(c) == {i \in 1..Len(c) : c[i] # 0}

StripLeading(c) ==
    IF NonZero(c) = {} THEN <<>> ELSE SubSeq(c, Min(NonZero(c)), Len(c))

\* the digits of a machine integer n >= 0
DigitsOf(n) == StripLeading([i \in 1..10 |-> (n \div Pow10(10 - i)) % 10])

Normalise(x) ==
    IF NonZero(x.c) = {} THEN [c |-> <<>>, e |-> 0]
    ELSE [c |-> SubSeq(x.c, Min(NonZero(x.c)), Max(NonZero(x.c))),
          e |-> x.e + (Len(x.c) - Max(NonZero(x.c)))]

\* c + 1 on a digit sequence
Increment(c) ==
    LET non9 == {i \in 1..Len(c) : c[i] # 9} IN
    IF non9 = {} THEN <<1>> \o Zeros(Len(c))
    ELSE [i \in 1..Len(c) |->
            IF i < Max(non9) THEN c[i] ELSE IF i = Max(non9) THEN c[i] + 1 ELSE 0]

\* the context's rounding: ROUND_HALF_EVEN to Prec significant digits
Round(x) ==
    LET c == StripLeading(x.c) IN
    IF Len(c) <= Prec THEN [c |-> c, e |-> x.e]
    ELSE LET kept == SubSeq(c, 1, Prec)
             rest == SubSeq(c, Prec + 1, Len(c))
             up   == \/ rest[1] > 5
                     \/ /\ rest[1] = 5
                        /\ \/ \E i \in 2..Len(rest) : rest[i] # 0
                           \/ kept[Prec] % 2 = 1
         IN [c |-> IF up THEN Increment(kept) ELSE kept,
             e |-> x.e + Len(rest)]

\* a digit sequence as limbs, and back
ToLimbs(c) ==
    LET n == (Len(c) + 2) \div 3
        p == Zeros(3 * n - Len(c)) \o c
    IN [j \in 1..n |-> 100 * p[3 * j - 2] + 10 * p[3 * j - 1] + p[3 * j]]

FromLimbs(l) ==
    [i \in 1..(3 * Len(l)) |->
        (l[(i + 2) \div 3] \div Pow10(2 - ((i - 1) % 3))) % 10]

\* limbs l times the natural number k, plus carry
RECURSIVE MulLimbs(_, _, _)
MulLimbs(l, k, carry) ==
    IF carry >= 0 /\ l = <<>> THEN ToLimbs(DigitsOf(carry))
    ELSE Append(MulLimbs(SubSeq(l, 1, Len(l) - 1), k,
                         (l[Len(l)] * k + carry) \div 1000),
                (l[Len(l)] * k + carry) % 1000)

\* sum of two limb sequences of the same length, plus carry
RECURSIVE AddLimbs(_, _, _)
AddLimbs(l, m, carry) ==
    IF carry >= 0 /\ l = <<>> THEN <<carry>>
    ELSE Append(AddLimbs(SubSeq(l, 1, Len(l) - 1), SubSeq(m, 1, Len(m) - 1),
                         (l[Len(l)] + m[Len(m)] + carry) \div 1000),
                (l[Len(l)] + m[Len(m)] + carry) % 1000)

\* Decimal(n) of an integer n >= 0, and n * 10^e
Decimal(n) == Normalise([c |-> DigitsOf(n), e |-> 0])
DecimalScaled(n, e) == Normalise([c |-> DigitsOf(n), e |-> e])

\* the exact product of x and y (the shorter coefficient is the multiplier;
\* it fits a machine integer for every value of the model)
Product(x, y) ==
    LET big   == IF Len(x.c) >= Len(y.c) THEN x.c ELSE y.c
        small == IF Len(x.c) >= Len(y.c) THEN y.c ELSE x.c
    IN [c |-> FromLimbs(MulLimbs(ToLimbs(big), IntOf(small), 0)),
        e |-> x.e + y.e]

\* x * y: the exact product, rounded by the context
DecMul(x, y) == Normalise(Round(Product(x, y)))

\* x + y: the exact sum, rounded by the context
DecAdd(x, y) ==
    IF x.c = <<>> THEN Normalise(Round(y)) ELSE
    IF y.c = <<>> THEN Normalise(Round(x)) ELSE
    LET e  == IF x.e <= y.e THEN x.e ELSE y.e
        xc == x.c \o Zeros(x.e - e)
        yc == y.c \o Zeros(y.e - e)
        n  == IF Len(xc) >= Len(yc) THEN Len(xc) ELSE Len(yc)
    IN Normalise(Round([c |-> FromLimbs(AddLimbs(ToLimbs(Zeros(n - Len(xc)) \o xc),
                                                 ToLimbs(Zeros(n - Len(yc)) \o yc), 0)),
                        e |-> e]))

\* x / Decimal(100): the quotient has x's digits, rounded by the context
DecDiv100(x) == Normalise(Round([c |-> x.c, e |-> x.e - 2]))

\* Decimal(0.2): the binary double nearest to 0.2, converted exactly
Decimal_0_2 ==
    [c |-> <<2,0,0,0,0,0,0,0,0,0,0,0,0,0,0,0,1,1,
             1,0,2,2,3,0,2,4,6,2,5,1,5,6,5,4,0,4,
             2,3,6,3,1,6,6,8,0,9,0,8,2,0,3,1,2,5>>,
     e |-> -54]

(***************************************************************************)
(* BaseRepository: the queries every table shares.                         *)
(***************************************************************************)
Ids(table) == 1..Len(table)

\* the ids a query "WHERE is_deleted = false" ranges over
LiveIds(table) == {i \in Ids(table) : ~table[i].is_deleted}

\* a faulty variant of found: the query forgets is_deleted = false
found_deleted_too(table, id) == id \in Ids(table)

\* BaseRepository.get / get_or_404: whether the id resolves to a row
found(table, id) == id \in LiveIds(table)

\* BaseRepository.delete with soft_delete = True, after get_or_404 succeeded
soft_delete(table, id) == [table EXCEPT ![id].is_deleted = TRUE]

\* BaseRepository.update: setattr for every field the payload sets
apply_update(row, payload) ==
    [f \in DOMAIN row |->
        IF f \in DOMAIN payload THEN payload[f] ELSE row[f]]

\* no update_status request is in flight
NoRequests ==
    [r \in 1..MaxRequests |-> [pc |-> "idle", id |-> 0, status |-> "Draft"]]

\* before any call, and the response of a call that is not a dashboard
NoCall == [op |-> "none", id |-> 0, arg |-> NoFields, raised |-> "no"]
NoResponse == [perspectives |-> <<>>]

\* the permutations of a finite set: the orders a query with no ORDER BY
\* may return its rows in
Orders(S) ==
    {o \in [1..Cardinality(S) -> S] :
        \A i, j \in 1..Cardinality(S) : i # j => o[i] # o[j]}


(***************************************************************************)
(* Periods: PeriodService over PeriodRepository.                           *)
(***************************************************************************)
PeriodTypes == {"Monthly", "Quarterly"}
PeriodStatuses == {"Draft", "Active", "Closed"}
PeriodYears == {2025}
PeriodLabels == {"1"}

\* PeriodCreate payloads, and PeriodUpdate payloads (every field optional)
PeriodCreate == [type : PeriodTypes, year : PeriodYears, period : PeriodLabels]
PeriodUpdate ==
    {Merge(Merge(t, y), Merge(p, s)) :
        t \in Opt("type", PeriodTypes), y \in Opt("year", PeriodYears),
        p \in Opt("period", PeriodLabels), s \in Opt("status", PeriodStatuses)}

\* PeriodRepository.get_by_year_and_period: the rows the query matches
get_by_year_and_period(year, period, type) ==
    {i \in LiveIds(periods) : /\ periods[i].year = year
                              /\ periods[i].period = period
                              /\ periods[i].type = type}

\* PeriodRepository.get_active_period: the rows the query matches; the query
\* has no ORDER BY, so first() is any one of them, and None when there is none
get_active_period == {i \in LiveIds(periods) : periods[i].status = "Active"}

\* PeriodService.create_period
create_period(period_in) ==
    /\ IF get_by_year_and_period(period_in.year, period_in.period, period_in.type) # {}
       THEN /\ last' = [op |-> "create_period", id |-> 0, arg |-> period_in,
                        raised |-> "HTTP_400"]
            /\ UNCHANGED periods
       ELSE /\ Len(periods) < MaxPeriods
            /\ periods' = Append(periods,
                    [type |-> period_in.type, year |-> period_in.year,
                     period |-> period_in.period, status |-> "Draft",
                     is_deleted |-> FALSE])
            /\ last' = [op |-> "create_period", id |-> Len(periods) + 1,
                        arg |-> period_in, raised |-> "no"]
    /\ UNCHANGED <<bscIndicators, bscActuals, mpmIndicators, mpmActuals, response>>
    /\ UNCHANGED planVars

\* BaseService.update on periods (PATCH /periods/{id})
Period_update(id, obj_in) ==
    /\ IF ~found(periods, id)
       THEN /\ last' = [op |-> "update", id |-> id, arg |-> obj_in,
                        raised |-> "HTTP_404"]
            /\ UNCHANGED periods
       ELSE /\ periods' = [periods EXCEPT ![id] = apply_update(@, obj_in)]
            /\ last' = [op |-> "update", id |-> id, arg |-> obj_in, raised |-> "no"]
    /\ UNCHANGED <<bscIndicators, bscActuals, mpmIndicators, mpmActuals, response>>
    /\ UNCHANGED planVars

\* PeriodService.update_period_status -> PeriodRepository.update_status.
\* Inside update_status the parameter named status hides fastapi's status
\* module, so building the HTTPException of the conflict branch raises
\* AttributeError (PeriodStatus has no HTTP_400_BAD_REQUEST) before any write.
update_period_status(id, status) ==
    /\ IF ~found(periods, id)
       THEN /\ last' = [op |-> "update_period_status", id |-> id,
                        arg |-> [status |-> status], raised |-> "HTTP_404"]
            /\ UNCHANGED periods
       ELSE \/ /\ status = "Active"
               /\ \E active_period \in get_active_period : active_period # id
               /\ last' = [op |-> "update_period_status", id |-> id,
                           arg |-> [status |-> status],
                           raised |-> "AttributeError"]
               /\ UNCHANGED periods
            \/ /\ \/ status # "Active"
                  \/ get_active_period = {}
                  \/ \E active_period \in get_active_period : active_period = id
               /\ periods' = [periods EXCEPT ![id].status = status]
               /\ last' = [op |-> "update_period_status", id |-> id,
                           arg |-> [status |-> status], raised |-> "no"]
    /\ UNCHANGED <<bscIndicators, bscActuals, mpmIndicators, mpmActuals, response>>
    /\ UNCHANGED planVars

\* BaseService.delete on periods (soft delete)
Period_delete(id) ==
    /\ IF ~found(periods, id)
       THEN /\ last' = [op |-> "delete", id |-> id, arg |-> NoFields,
                        raised |-> "HTTP_404"]
            /\ UNCHANGED periods
       ELSE /\ periods' = soft_delete(periods, id)
            /\ last' = [op |-> "delete", id |-> id, arg |-> NoFields, raised |-> "no"]
    /\ UNCHANGED <<bscIndicators, bscActuals, mpmIndicators, mpmActuals, response>>
    /\ UNCHANGED planVars

InitPeriod ==
    /\ periods = <<>>
    /\ bscIndicators = <<>>
    /\ bscActuals = <<>>
    /\ mpmIndicators = <<>>
    /\ mpmActuals = <<>>
    /\ mpmActionPlans = <<>>
    /\ mpmQuarterlyData = <<>>
    /\ mpmMonthlyTargets = <<>>
    /\ inflight = NoRequests
    /\ last = NoCall
    /\ response = NoResponse

\* ids a request may name: every row, and one id that resolves to nothing
PeriodIds == 1..(Len(periods) + 1)

NextPeriod ==
    \/ \E period_in \in PeriodCreate : create_period(period_in)
    \/ \E id \in PeriodIds, obj_in \in PeriodUpdate : Period_update(id, obj_in)
    \/ \E id \in PeriodIds, status \in PeriodStatuses : update_period_status(id, status)
    \/ \E id \in PeriodIds : Period_delete(id)

SpecPeriod == InitPeriod /\ [][NextPeriod]_vars

ActivePeriods == {i \in LiveIds(periods) : periods[i].status = "Active"}

\* C1: after any sequence of period operations at most one non-deleted
\* period has status Active.
C1_AtMostOneActive == Cardinality(ActivePeriods) <= 1

\* C2: update_period_status(id, Active) on a live period is rejected with an
\* error and changes no status while a different non-deleted period is Active,
\* and otherwise succeeds and leaves the period Active.
C2_ActivationGuard ==
    [][\A id \in LiveIds(periods) :
         (last'.op = "update_period_status" /\ last'.id = id
            /\ last'.arg.status = "Active")
         => IF ActivePeriods \ {id} # {}
            THEN last'.raised # "no" /\ periods' = periods
            ELSE last'.raised = "no" /\ periods'[id].status = "Active"]_vars


(***************************************************************************)
(* Indicators and actuals, the part the two frameworks share.              *)
(***************************************************************************)
\* the periods indicators are created for
ScorePeriods == {1}

\* actual_value as the request gives it, and an explicit null in a payload
ActualValues == {"v"}
Notes == {"late data"}
Null == [null |-> TRUE]

\* the rows of the four tables together; the model stops adding rows at its
\* bounds
Rows == Len(bscIndicators) + Len(bscActuals) + Len(mpmIndicators) + Len(mpmActuals)
MayAddIndicator ==
    Len(bscIndicators) + Len(mpmIndicators) < MaxIndicators /\ Rows < MaxRows
MayAddActual ==
    Len(bscActuals) + Len(mpmActuals) < MaxActuals /\ Rows < MaxRows

Called(op, raised) == [op |-> op, id |-> 0, arg |-> NoFields, raised |-> raised]

(***************************************************************************)
(* BSC: BSCIndicatorService, BSCActualService, BSCIndicatorRepository.     *)
(***************************************************************************)
BSCPerspectives == {"Financial", "Customer"}
BSCCodes == {"F1", "F2"}
BSCWeights == {Decimal(20), Decimal(30)}
BSCAchievements == {Decimal(50), Decimal(90)}

\* the payloads of the requests, from the values a specification allows
BSCIndicatorCreate(codes, perspectives, weights) ==
    [code : codes, perspective : perspectives, weight : weights,
     period_id : ScorePeriods]
BSCIndicatorUpdate ==
    {Merge(c, w) : c \in Opt("code", BSCCodes), w \in Opt("weight", BSCWeights)}
BSCActualCreate(ids) ==
    [indicator_id : ids, actual_value : ActualValues, achievement : BSCAchievements]
BSCActualUpdate ==
    {Merge(Merge(v, a), n) :
        v \in Opt("actual_value", ActualValues),
        a \in Opt("achievement", BSCAchievements \cup {Null}),
        n \in Opt("problem_identification", Notes)}

\* a faulty variant of get_by_code: first() is taken before the code is
\* compared
get_by_code_first(code, period_id) ==
    {i \in LiveIds(bscIndicators) :
        /\ bscIndicators[i].code = code
        /\ bscIndicators[i].period_id = period_id
        /\ \A o \in LiveIds(bscIndicators) :
                bscIndicators[o].period_id = period_id => i <= o}

\* BSCIndicatorRepository.get_by_code: the rows the query matches
get_by_code(code, period_id) ==
    {i \in LiveIds(bscIndicators) : /\ bscIndicators[i].code = code
                                    /\ bscIndicators[i].period_id = period_id}

\* BSCIndicatorService.create_indicator
BSC_create_indicator(indicator_in) ==
    /\ IF get_by_code(indicator_in.code, indicator_in.period_id) # {}
       THEN /\ last' = Called("BSC_create_indicator", "HTTP_400")
            /\ UNCHANGED bscIndicators
       ELSE /\ MayAddIndicator
            /\ bscIndicators' = Append(bscIndicators,
                    [code |-> indicator_in.code,
                     perspective |-> indicator_in.perspective,
                     weight |-> indicator_in.weight,
                     is_active |-> TRUE,
                     period_id |-> indicator_in.period_id,
                     is_deleted |-> FALSE])
            /\ last' = Called("BSC_create_indicator", "no")
    /\ response' = NoResponse
    /\ UNCHANGED <<periods, bscActuals, mpmIndicators, mpmActuals>>
    /\ UNCHANGED planVars

\* BSCIndicatorService.update_indicator
BSC_update_indicator(indicator_id, indicator_in) ==
    /\ IF ~found(bscIndicators, indicator_id)
       THEN /\ last' = Called("BSC_update_indicator", "HTTP_404")
            /\ UNCHANGED bscIndicators
       ELSE IF /\ "code" \in DOMAIN indicator_in
               /\ indicator_in.code # bscIndicators[indicator_id].code
               /\ \E existing_indicator \in
                        get_by_code(indicator_in.code,
                            IF "period_id" \in DOMAIN indicator_in
                            THEN indicator_in.period_id
                            ELSE bscIndicators[indicator_id].period_id) :
                     existing_indicator # indicator_id
       THEN /\ last' = Called("BSC_update_indicator", "HTTP_400")
            /\ UNCHANGED bscIndicators
       ELSE /\ bscIndicators' =
                [bscIndicators EXCEPT ![indicator_id] = apply_update(@, indicator_in)]
            /\ last' = Called("BSC_update_indicator", "no")
    /\ response' = NoResponse
    /\ UNCHANGED <<periods, bscActuals, mpmIndicators, mpmActuals>>
    /\ UNCHANGED planVars

\* BaseService.delete on BSC indicators (DELETE /bsc/indicators/{id})
BSCIndicator_delete(id) ==
    /\ IF ~found(bscIndicators, id)
       THEN /\ last' = Called("BSCIndicator_delete", "HTTP_404")
            /\ UNCHANGED bscIndicators
       ELSE /\ bscIndicators' = soft_delete(bscIndicators, id)
            /\ last' = Called("BSCIndicator_delete", "no")
    /\ response' = NoResponse
    /\ UNCHANGED <<periods, bscActuals, mpmIndicators, mpmActuals>>
    /\ UNCHANGED planVars

\* the derived fields BSCActualService.create_actual computes
BSC_create_derived(weight, achievement_in) ==
    LET achievement   == DecDiv100(achievement_in)
        score         == DecMul(weight, achievement)
        active_weight == DecMul(weight, Decimal(2))
        total_score   == DecMul(score, Decimal_0_2)
    IN [score |-> score, active_weight |-> active_weight,
        total_score |-> total_score, score_akhir |-> total_score]

\* a faulty variant of BSC_update_derived: active_weight is not doubled
BSC_update_derived_single_weight(weight, achievement_in) ==
    LET achievement   == DecDiv100(achievement_in)
        score         == DecMul(weight, achievement)
        total_score   == DecMul(score, Decimal_0_2)
    IN [score |-> score, active_weight |-> weight,
        total_score |-> total_score, score_akhir |-> total_score]

\* the derived fields BSCActualService.update_actual recomputes
BSC_update_derived(weight, achievement_in) ==
    LET achievement   == DecDiv100(achievement_in)
        score         == DecMul(weight, achievement)
        active_weight == DecMul(weight, Decimal(2))
        total_score   == DecMul(score, Decimal_0_2)
    IN [score |-> score, active_weight |-> active_weight,
        total_score |-> total_score, score_akhir |-> total_score]

\* the two computations on every weight and achievement of the model,
\* evaluated once
BSC_create_table ==
    [w \in BSCWeights |-> [a \in BSCAchievements |-> BSC_create_derived(w, a)]]
BSC_update_table ==
    [w \in BSCWeights |-> [a \in BSCAchievements |-> BSC_update_derived(w, a)]]

\* BSCActualService.create_actual
BSC_create_actual(actual_in) ==
    /\ IF ~found(bscIndicators, actual_in.indicator_id)
       THEN /\ last' = Called("BSC_create_actual", "HTTP_404")
            /\ UNCHANGED bscActuals
       ELSE /\ MayAddActual
            /\ bscActuals' = Append(bscActuals,
                  Merge(BSC_create_table[bscIndicators[actual_in.indicator_id].weight]
                                        [actual_in.achievement],
                        [indicator_id |-> actual_in.indicator_id,
                         actual_value |-> actual_in.actual_value,
                         achievement |-> actual_in.achievement,
                         problem_identification |-> None,
                         is_deleted |-> FALSE]))
            /\ last' = Called("BSC_create_actual", "no")
    /\ response' = NoResponse
    /\ UNCHANGED <<periods, bscIndicators, mpmIndicators, mpmActuals>>
    /\ UNCHANGED planVars

\* BSCActualService.update_actual
BSC_update_actual(actual_id, actual_in) ==
    /\ IF ~found(bscActuals, actual_id)
       THEN /\ last' = Called("BSC_update_actual", "HTTP_404")
            /\ UNCHANGED bscActuals
       ELSE IF "actual_value" \in DOMAIN actual_in \/ "achievement" \in DOMAIN actual_in
       THEN IF ~found(bscIndicators, bscActuals[actual_id].indicator_id)
            THEN /\ last' = Called("BSC_update_actual", "HTTP_404")
                 /\ UNCHANGED bscActuals
            ELSE IF "achievement" \in DOMAIN actual_in /\ actual_in.achievement = Null
            THEN /\ last' = Called("BSC_update_actual", "TypeError")
                 /\ UNCHANGED bscActuals
            ELSE /\ bscActuals' = [bscActuals EXCEPT ![actual_id] =
                      apply_update(@,
                        Merge(BSC_update_table
                                [bscIndicators[bscActuals[actual_id].indicator_id].weight]
                                [IF "achievement" \in DOMAIN actual_in
                                 THEN actual_in.achievement
                                 ELSE bscActuals[actual_id].achievement],
                              actual_in))]
                 /\ last' = Called("BSC_update_actual", "no")
       ELSE /\ bscActuals' = [bscActuals EXCEPT ![actual_id] = apply_update(@, actual_in)]
            /\ last' = Called("BSC_update_actual", "no")
    /\ response' = NoResponse
    /\ UNCHANGED <<periods, bscIndicators, mpmIndicators, mpmActuals>>
    /\ UNCHANGED planVars

\* BaseService.delete on BSC actuals (DELETE /bsc/actuals/{id})
BSCActual_delete(id) ==
    /\ IF ~found(bscActuals, id)
       THEN /\ last' = Called("BSCActual_delete", "HTTP_404")
            /\ UNCHANGED bscActuals
       ELSE /\ bscActuals' = soft_delete(bscActuals, id)
            /\ last' = Called("BSCActual_delete", "no")
    /\ response' = NoResponse
    /\ UNCHANGED <<periods, bscIndicators, mpmIndicators, mpmActuals>>
    /\ UNCHANGED planVars

\* BSCIndicatorRepository.get_by_period: the rows the query matches
BSC_get_by_period(period_id) ==
    {i \in LiveIds(bscIndicators) : bscIndicators[i].period_id = period_id}

\* the actuals the dashboard's query returns for an indicator
BSC_actuals(indicator) ==
    {a \in LiveIds(bscActuals) : bscActuals[a].indicator_id = indicator}

\* actuals[0] for every indicator: the query has no ORDER BY, so the first
\* row is any of the rows; 0 stands for "actual": None
BSC_first_actuals ==
    {first \in [LiveIds(bscIndicators) -> 0..Len(bscActuals)] :
        \A i \in LiveIds(bscIndicators) :
            IF BSC_actuals(i) = {} THEN first[i] = 0 ELSE first[i] \in BSC_actuals(i)}

BSC_zero_totals ==
    [total_weight |-> Decimal(0), total_score |-> Decimal(0),
     total_active_weight |-> Decimal(0), total_score_akhir |-> Decimal(0)]

\* a faulty variant of BSC_add: the weight is added inside "if actuals"
BSC_add_weight_if_actual(t, indicator, actual) ==
    IF actual = 0
    THEN t
    ELSE [t EXCEPT
            !.total_weight = DecAdd(@, bscIndicators[indicator].weight),
            !.total_score = DecAdd(@, bscActuals[actual].score),
            !.total_active_weight = DecAdd(@, bscActuals[actual].active_weight),
            !.total_score_akhir = DecAdd(@, bscActuals[actual].score_akhir)]

\* the "+=" lines of one pass of the dashboard's loop, on a perspective
\* group or on the overall totals
BSC_add(t, indicator, actual) ==
    IF actual = 0
    THEN [t EXCEPT !.total_weight = DecAdd(@, bscIndicators[indicator].weight)]
    ELSE [t EXCEPT
            !.total_weight = DecAdd(@, bscIndicators[indicator].weight),
            !.total_score = DecAdd(@, bscActuals[actual].score),
            !.total_active_weight = DecAdd(@, bscActuals[actual].active_weight),
            !.total_score_akhir = DecAdd(@, bscActuals[actual].score_akhir)]

\* BSCIndicatorRepository.get_dashboard_data: data and totals after the loop
\* has gone through the first k indicators
RECURSIVE BSC_dashboard_loop(_, _, _)
BSC_dashboard_loop(indicators, first, k) ==
    IF k = 0 THEN [perspectives |-> <<>>, totals |-> BSC_zero_totals]
    ELSE LET data == BSC_dashboard_loop(indicators, first, k - 1)
             indicator == indicators[k]
             perspective == bscIndicators[indicator].perspective
             groups ==
                IF \E j \in 1..Len(data.perspectives) :
                       data.perspectives[j].perspective = perspective
                THEN data.perspectives
                ELSE Append(data.perspectives,
                            Merge([perspective |-> perspective, items |-> <<>>],
                                  BSC_zero_totals))
             g == CHOOSE j \in 1..Len(groups) : groups[j].perspective = perspective
             item == [indicator |-> indicator, actual |-> first[indicator]]
         IN [perspectives |->
                [groups EXCEPT ![g] =
                    BSC_add([@ EXCEPT !.items = Append(@, item)],
                            indicator, first[indicator])],
             totals |-> BSC_add(data.totals, indicator, first[indicator])]

BSC_get_dashboard_data(period_id, indicators, first) ==
    LET data == BSC_dashboard_loop(indicators, first, Len(indicators))
    IN Merge([period_id |-> period_id, perspectives |-> data.perspectives],
             data.totals)

\* BSCIndicatorService.get_bsc_dashboard
get_bsc_dashboard(period_id) ==
    /\ \E indicators \in Orders(BSC_get_by_period(period_id)) :
         \E first \in BSC_first_actuals :
            response' = BSC_get_dashboard_data(period_id, indicators, first)
    /\ last' = Called("get_bsc_dashboard", "no")
    /\ UNCHANGED <<periods, bscIndicators, bscActuals, mpmIndicators, mpmActuals>>
    /\ UNCHANGED planVars

(***************************************************************************)
(* MPM: MPMIndicatorService, MPMActualService, MPMIndicatorRepository.     *)
(***************************************************************************)
MPMPerspectives == {"Financial", None}
MPMKpis == {"K1", "K2"}
MPMWeights == {Decimal(20), Decimal(50)}

\* 66.66666666666666666666666667, an achievement of 28 significant digits
LongAchievement ==
    [c |-> <<6,6,6,6,6,6,6,6,6,6,6,6,6,6,6,6,6,6,6,6,6,6,6,6,6,6,6,7>>, e |-> -26]
MPMAchievements == {Decimal(80), LongAchievement}

\* MPMPerspective in the order of its declaration, which ORDER BY
\* perspective follows; NULL sorts last
MPMPerspectiveOrder ==
    <<"Financial", "Customer", "Internal Business Process", "Learning & Growth", None>>

MPMIndicatorCreate(kpis, perspectives, weights) ==
    [kpi : kpis, perspective : perspectives, weight : weights,
     period_id : ScorePeriods]
MPMIndicatorUpdate ==
    {Merge(k, w) : k \in Opt("kpi", MPMKpis), w \in Opt("weight", MPMWeights)}
MPMActualUpdate ==
    {Merge(Merge(v, a), n) :
        v \in Opt("actual_value", ActualValues),
        a \in Opt("achievement", MPMAchievements \cup {Null}),
        n \in Opt("problem_identification", Notes)}

\* the JSON bodies POST /mpm/actuals receives: a body may carry a score
MPMActualBodies(ids) ==
    {Merge(b, s) :
        b \in [indicator_id : ids, actual_value : ActualValues,
               achievement : MPMAchievements],
        s \in Opt("score", {Decimal(1)})}

\* MPMActualCreate: parsing keeps the fields the schema declares
MPMActualCreate(body) ==
    [indicator_id |-> body.indicator_id, actual_value |-> body.actual_value,
     achievement |-> body.achievement, problem_identification |-> None]

\* a faulty variant of get_by_kpi: the query forgets is_deleted = false
get_by_kpi_deleted_too(kpi, period_id) ==
    {i \in Ids(mpmIndicators) : /\ mpmIndicators[i].kpi = kpi
                                /\ mpmIndicators[i].period_id = period_id}

\* MPMIndicatorRepository.get_by_kpi: the rows the query matches
get_by_kpi(kpi, period_id) ==
    {i \in LiveIds(mpmIndicators) : /\ mpmIndicators[i].kpi = kpi
                                    /\ mpmIndicators[i].period_id = period_id}

\* MPMIndicatorRepository.get_next_kpi_number; a kpi_number of 0 stands for
\* NULL, which max() ignores
get_next_kpi_number(perspective, period_id) ==
    Max({0} \cup {mpmIndicators[i].kpi_number :
                    i \in {j \in LiveIds(mpmIndicators) :
                             /\ mpmIndicators[j].perspective = perspective
                             /\ mpmIndicators[j].period_id = period_id}}) + 1

\* MPMIndicatorService.create_indicator
MPM_create_indicator(indicator_in) ==
    /\ IF get_by_kpi(indicator_in.kpi, indicator_in.period_id) # {}
       THEN /\ last' = Called("MPM_create_indicator", "HTTP_400")
            /\ UNCHANGED mpmIndicators
       ELSE /\ MayAddIndicator
            /\ mpmIndicators' = Append(mpmIndicators,
                    [kpi |-> indicator_in.kpi,
                     perspective |-> indicator_in.perspective,
                     kpi_number |->
                        IF indicator_in.perspective # None
                        THEN get_next_kpi_number(indicator_in.perspective,
                                                 indicator_in.period_id)
                        ELSE 0,
                     weight |-> indicator_in.weight,
                     is_active |-> TRUE,
                     period_id |-> indicator_in.period_id,
                     is_deleted |-> FALSE])
            /\ last' = Called("MPM_create_indicator", "no")
    /\ response' = NoResponse
    /\ UNCHANGED <<periods, bscIndicators, bscActuals, mpmActuals>>
    /\ UNCHANGED planVars

\* MPMIndicatorService.update_indicator
MPM_update_indicator(indicator_id, indicator_in) ==
    /\ IF ~found(mpmIndicators, indicator_id)
       THEN /\ last' = Called("MPM_update_indicator", "HTTP_404")
            /\ UNCHANGED mpmIndicators
       ELSE IF /\ "kpi" \in DOMAIN indicator_in
               /\ indicator_in.kpi # mpmIndicators[indicator_id].kpi
               /\ \E existing_indicator \in
                        get_by_kpi(indicator_in.kpi,
                                   mpmIndicators[indicator_id].period_id) :
                     existing_indicator # indicator_id
       THEN /\ last' = Called("MPM_update_indicator", "HTTP_400")
            /\ UNCHANGED mpmIndicators
       ELSE /\ mpmIndicators' =
                [mpmIndicators EXCEPT ![indicator_id] = apply_update(@, indicator_in)]
            /\ last' = Called("MPM_update_indicator", "no")
    /\ response' = NoResponse
    /\ UNCHANGED <<periods, bscIndicators, bscActuals, mpmActuals>>
    /\ UNCHANGED planVars

\* BaseService.delete on MPM indicators (DELETE /mpm/indicators/{id})
MPMIndicator_delete(id) ==
    /\ IF ~found(mpmIndicators, id)
       THEN /\ last' = Called("MPMIndicator_delete", "HTTP_404")
            /\ UNCHANGED mpmIndicators
       ELSE /\ mpmIndicators' = soft_delete(mpmIndicators, id)
            /\ last' = Called("MPMIndicator_delete", "no")
    /\ response' = NoResponse
    /\ UNCHANGED <<periods, bscIndicators, bscActuals, mpmActuals>>
    /\ UNCHANGED planVars

\* a faulty variant of MPM_create_score: the division by 100 is missing
MPM_create_score_undivided(weight, achievement) == DecMul(weight, achievement)

\* the score MPMActualService.create_actual computes
MPM_create_score(weight, achievement) == DecDiv100(DecMul(weight, achievement))

\* the score MPMActualService.update_actual recomputes
MPM_update_score(weight, achievement) == DecDiv100(DecMul(weight, achievement))

\* the two computations on every weight and achievement of the model,
\* evaluated once
MPM_create_table ==
    [w \in MPMWeights |-> [a \in MPMAchievements |-> MPM_create_score(w, a)]]
MPM_update_table ==
    [w \in MPMWeights |-> [a \in MPMAchievements |-> MPM_update_score(w, a)]]

\* MPMActualService.create_actual, from the request body on
MPM_create_actual(body) ==
    LET actual_in == MPMActualCreate(body) IN
    /\ IF ~found(mpmIndicators, actual_in.indicator_id)
       THEN /\ last' = Called("MPM_create_actual", "HTTP_404")
            /\ UNCHANGED mpmActuals
       ELSE /\ MayAddActual
            /\ mpmActuals' = Append(mpmActuals,
                  Merge([score |-> MPM_create_table
                                      [mpmIndicators[actual_in.indicator_id].weight]
                                      [actual_in.achievement]],
                        Merge(actual_in, [is_deleted |-> FALSE])))
            /\ last' = Called("MPM_create_actual", "no")
    /\ response' = NoResponse
    /\ UNCHANGED <<periods, bscIndicators, bscActuals, mpmIndicators>>
    /\ UNCHANGED planVars

\* MPMActualService.update_actual
MPM_update_actual(actual_id, actual_in) ==
    /\ IF ~found(mpmActuals, actual_id)
       THEN /\ last' = Called("MPM_update_actual", "HTTP_404")
            /\ UNCHANGED mpmActuals
       ELSE IF "actual_value" \in DOMAIN actual_in \/ "achievement" \in DOMAIN actual_in
       THEN IF ~found(mpmIndicators, mpmActuals[actual_id].indicator_id)
            THEN /\ last' = Called("MPM_update_actual", "HTTP_404")
                 /\ UNCHANGED mpmActuals
            ELSE IF "achievement" \in DOMAIN actual_in /\ actual_in.achievement = Null
            THEN /\ last' = Called("MPM_update_actual", "TypeError")
                 /\ UNCHANGED mpmActuals
            ELSE /\ mpmActuals' = [mpmActuals EXCEPT ![actual_id] =
                      apply_update(@,
                        Merge([score |-> MPM_update_table
                                  [mpmIndicators[mpmActuals[actual_id].indicator_id].weight]
                                  [IF "achievement" \in DOMAIN actual_in
                                   THEN actual_in.achievement
                                   ELSE mpmActuals[actual_id].achievement]],
                              actual_in))]
                 /\ last' = Called("MPM_update_actual", "no")
       ELSE /\ mpmActuals' = [mpmActuals EXCEPT ![actual_id] = apply_update(@, actual_in)]
            /\ last' = Called("MPM_update_actual", "no")
    /\ response' = NoResponse
    /\ UNCHANGED <<periods, bscIndicators, bscActuals, mpmIndicators>>
    /\ UNCHANGED planVars

\* BaseService.delete on MPM actuals (DELETE /mpm/actuals/{id})
MPMActual_delete(id) ==
    /\ IF ~found(mpmActuals, id)
       THEN /\ last' = Called("MPMActual_delete", "HTTP_404")
            /\ UNCHANGED mpmActuals
       ELSE /\ mpmActuals' = soft_delete(mpmActuals, id)
            /\ last' = Called("MPMActual_delete", "no")
    /\ response' = NoResponse
    /\ UNCHANGED <<periods, bscIndicators, bscActuals, mpmIndicators>>
    /\ UNCHANGED planVars

\* ORDER BY perspective, kpi_number: whether row a must come before row b
MPM_before(a, b) ==
    LET rank(row) == CHOOSE r \in 1..Len(MPMPerspectiveOrder) :
                        MPMPerspectiveOrder[r] = row.perspective
    IN \/ rank(a) < rank(b)
       \/ /\ rank(a) = rank(b)
          /\ a.kpi_number # 0
          /\ b.kpi_number = 0 \/ a.kpi_number < b.kpi_number

\* MPMIndicatorRepository.get_by_period: the orders the query may return
MPM_get_by_period(period_id) ==
    {o \in Orders({i \in LiveIds(mpmIndicators) :
                      mpmIndicators[i].period_id = period_id}) :
        \A i, j \in 1..Len(o) :
            i < j => ~MPM_before(mpmIndicators[o[j]], mpmIndicators[o[i]])}

\* the dashboard's "latest actual" query: ORDER BY created_at DESC, first();
\* 0 stands for None
MPM_latest_actual(indicator) ==
    LET actuals == {a \in LiveIds(mpmActuals) : mpmActuals[a].indicator_id = indicator}
    IN IF actuals = {} THEN 0 ELSE Max(actuals)

MPM_zero_totals == [total_weight |-> Decimal(0), total_score |-> Decimal(0)]

\* a faulty variant of MPM_add: the actual's achievement is added, not its
\* score
MPM_add_achievement(t, indicator, actual) ==
    IF actual = 0
    THEN [t EXCEPT !.total_weight = DecAdd(@, mpmIndicators[indicator].weight)]
    ELSE [t EXCEPT
            !.total_weight = DecAdd(@, mpmIndicators[indicator].weight),
            !.total_score = DecAdd(@, mpmActuals[actual].achievement)]

\* the "+=" lines of one pass of the dashboard's loop
MPM_add(t, indicator, actual) ==
    IF actual = 0
    THEN [t EXCEPT !.total_weight = DecAdd(@, mpmIndicators[indicator].weight)]
    ELSE [t EXCEPT
            !.total_weight = DecAdd(@, mpmIndicators[indicator].weight),
            !.total_score = DecAdd(@, mpmActuals[actual].score)]

\* MPMIndicatorRepository.get_dashboard_data: data and totals after the loop
\* has gone through the first k indicators
RECURSIVE MPM_dashboard_loop(_, _)
MPM_dashboard_loop(indicators, k) ==
    IF k = 0 THEN [perspectives |-> <<>>, totals |-> MPM_zero_totals]
    ELSE LET data == MPM_dashboard_loop(indicators, k - 1)
             indicator == indicators[k]
             perspective ==
                IF mpmIndicators[indicator].perspective # None
                THEN mpmIndicators[indicator].perspective ELSE "Other"
             groups ==
                IF \E j \in 1..Len(data.perspectives) :
                       data.perspectives[j].perspective = perspective
                THEN data.perspectives
                ELSE Append(data.perspectives,
                            Merge([perspective |-> perspective, items |-> <<>>],
                                  MPM_zero_totals))
             g == CHOOSE j \in 1..Len(groups) : groups[j].perspective = perspective
             actual == MPM_latest_actual(indicator)
             item == [indicator |-> indicator, actual |-> actual]
         IN [perspectives |->
                [groups EXCEPT ![g] =
                    MPM_add([@ EXCEPT !.items = Append(@, item)], indicator, actual)],
             totals |-> MPM_add(data.totals, indicator, actual)]

MPM_get_dashboard_data(period_id, indicators) ==
    LET data == MPM_dashboard_loop(indicators, Len(indicators))
    IN Merge([period_id |-> period_id, perspectives |-> data.perspectives],
             data.totals)

\* MPMIndicatorService.get_mpm_dashboard
get_mpm_dashboard(period_id) ==
    /\ \E indicators \in MPM_get_by_period(period_id) :
            response' = MPM_get_dashboard_data(period_id, indicators)
    /\ last' = Called("get_mpm_dashboard", "no")
    /\ UNCHANGED <<periods, bscIndicators, bscActuals, mpmIndicators, mpmActuals>>
    /\ UNCHANGED planVars

(***************************************************************************)
(* Specifications over one active period.                                  *)
(***************************************************************************)
InitScore ==
    /\ periods = <<[type |-> "Monthly", year |-> 2025, period |-> "1",
                    status |-> "Active", is_deleted |-> FALSE]>>
    /\ bscIndicators = <<>>
    /\ bscActuals = <<>>
    /\ mpmIndicators = <<>>
    /\ mpmActuals = <<>>
    /\ mpmActionPlans = <<>>
    /\ mpmQuarterlyData = <<>>
    /\ mpmMonthlyTargets = <<>>
    /\ inflight = NoRequests
    /\ last = NoCall
    /\ response = NoResponse

\* ids a request may name: every row, and one id that resolves to nothing
RowIds(table) == 1..(Len(table) + 1)

\* Recording actuals: every operation on indicators and on actuals.
NextActual ==
    \/ \E indicator_in \in BSCIndicatorCreate(BSCCodes, {"Financial"}, BSCWeights) :
            BSC_create_indicator(indicator_in)
    \/ \E id \in RowIds(bscIndicators), indicator_in \in Opt("weight", BSCWeights) :
            BSC_update_indicator(id, indicator_in)
    \/ \E id \in RowIds(bscIndicators) : BSCIndicator_delete(id)
    \/ \E actual_in \in BSCActualCreate(RowIds(bscIndicators)) :
            BSC_create_actual(actual_in)
    \/ \E id \in RowIds(bscActuals), actual_in \in BSCActualUpdate :
            BSC_update_actual(id, actual_in)
    \/ \E id \in RowIds(bscActuals) : BSCActual_delete(id)
    \/ \E indicator_in \in MPMIndicatorCreate(MPMKpis, {"Financial"}, MPMWeights) :
            MPM_create_indicator(indicator_in)
    \/ \E id \in RowIds(mpmIndicators), indicator_in \in Opt("weight", MPMWeights) :
            MPM_update_indicator(id, indicator_in)
    \/ \E id \in RowIds(mpmIndicators) : MPMIndicator_delete(id)
    \/ \E body \in MPMActualBodies(RowIds(mpmIndicators)) : MPM_create_actual(body)
    \/ \E id \in RowIds(mpmActuals), actual_in \in MPMActualUpdate :
            MPM_update_actual(id, actual_in)
    \/ \E id \in RowIds(mpmActuals) : MPMActual_delete(id)

SpecActual == InitScore /\ [][NextActual]_vars

\* The dashboards: indicators of any perspective, their actuals, soft
\* deletes, and the two dashboards.
NextDashboard ==
    \/ \E indicator_in \in BSCIndicatorCreate(BSCCodes, BSCPerspectives, BSCWeights) :
            BSC_create_indicator(indicator_in)
    \/ \E id \in Ids(bscIndicators) : BSCIndicator_delete(id)
    \/ \E actual_in \in BSCActualCreate(Ids(bscIndicators)) :
            BSC_create_actual(actual_in)
    \/ \E id \in Ids(bscActuals) : BSCActual_delete(id)
    \/ \E period_id \in ScorePeriods : get_bsc_dashboard(period_id)
    \/ \E indicator_in \in MPMIndicatorCreate(MPMKpis, MPMPerspectives, MPMWeights) :
            MPM_create_indicator(indicator_in)
    \/ \E id \in Ids(mpmIndicators) : MPMIndicator_delete(id)
    \/ \E body \in MPMActualBodies(Ids(mpmIndicators)) : MPM_create_actual(body)
    \/ \E id \in Ids(mpmActuals) : MPMActual_delete(id)
    \/ \E period_id \in ScorePeriods : get_mpm_dashboard(period_id)

SpecDashboard == InitScore /\ [][NextDashboard]_vars

(***************************************************************************)
(* Properties of actuals.                                                  *)
(***************************************************************************)
\* x * y and x / 100 with every digit kept
ExactProduct(x, y) == Normalise(Product(x, y))
ExactDiv100(x) == Normalise([c |-> x.c, e |-> x.e - 2])

\* the actual a successful create_actual has just persisted
NewBSCActual == bscActuals[Len(bscActuals)]
NewMPMActual == mpmActuals[Len(mpmActuals)]
CreatedMPMActual == last.op = "MPM_create_actual" /\ last.raised = "no"
CreatedBSCActual == last.op = "BSC_create_actual" /\ last.raised = "no"

\* C3, as the spec states it: MPM create_actual persists score = (w * a) / 100
\* exactly, whatever the request body says about score.
C3_MPMScoreExact ==
    CreatedMPMActual =>
        NewMPMActual.score =
            ExactDiv100(ExactProduct(mpmIndicators[NewMPMActual.indicator_id].weight,
                                     NewMPMActual.achievement))

\* C3, amended: MPM create_actual persists score = (w * a) / 100 rounded
\* half-even to 28 significant digits (exact when the value has no more),
\* whatever the request body says about score.
C3_MPMScoreRounded ==
    CreatedMPMActual =>
        NewMPMActual.score =
            Normalise(Round(ExactDiv100(ExactProduct(
                mpmIndicators[NewMPMActual.indicator_id].weight,
                NewMPMActual.achievement))))

C3_Witness ==
    /\ CreatedMPMActual
    /\ NewMPMActual.achievement = LongAchievement
    /\ mpmIndicators[NewMPMActual.indicator_id].weight = Decimal(20)
    /\ NewMPMActual.score # Decimal(1)

\* C4: BSC create_actual persists score = w * (a / 100), active_weight = 2w,
\* total_score = score * 0.2 and score_akhir = total_score.
C4_BSCDerived ==
    CreatedBSCActual =>
        LET w == bscIndicators[NewBSCActual.indicator_id].weight IN
        /\ NewBSCActual.score = ExactProduct(w, ExactDiv100(NewBSCActual.achievement))
        /\ NewBSCActual.active_weight = ExactProduct(w, Decimal(2))
        /\ NewBSCActual.total_score =
                ExactProduct(NewBSCActual.score, DecimalScaled(2, -1))
        /\ NewBSCActual.score_akhir = NewBSCActual.total_score

\* the derived fields of a BSC actual
BSCDerived(row) ==
    [score |-> row.score, active_weight |-> row.active_weight,
     total_score |-> row.total_score, score_akhir |-> row.score_akhir]

\* C5: a successful update_actual (MPM and BSC) whose payload sets
\* achievement or actual_value stores the derived fields the create-time
\* formulas give for the payload's achievement, or the stored achievement when
\* the payload has none, and the indicator's weight at the time of the update;
\* a payload that sets neither leaves the derived fields unchanged.
C5_UpdateRecomputes ==
    [][/\ (last'.op = "BSC_update_actual" /\ last'.raised = "no") =>
          \A id \in Ids(bscActuals), actual_in \in BSCActualUpdate :
            BSC_update_actual(id, actual_in)
            => IF "actual_value" \in DOMAIN actual_in \/ "achievement" \in DOMAIN actual_in
               THEN BSCDerived(bscActuals'[id]) =
                        BSC_create_table
                            [bscIndicators[bscActuals[id].indicator_id].weight]
                            [IF "achievement" \in DOMAIN actual_in
                             THEN actual_in.achievement
                             ELSE bscActuals[id].achievement]
               ELSE BSCDerived(bscActuals'[id]) = BSCDerived(bscActuals[id])
       /\ (last'.op = "MPM_update_actual" /\ last'.raised = "no") =>
          \A id \in Ids(mpmActuals), actual_in \in MPMActualUpdate :
            MPM_update_actual(id, actual_in)
            => IF "actual_value" \in DOMAIN actual_in \/ "achievement" \in DOMAIN actual_in
               THEN mpmActuals'[id].score =
                        MPM_create_table
                            [mpmIndicators[mpmActuals[id].indicator_id].weight]
                            [IF "achievement" \in DOMAIN actual_in
                             THEN actual_in.achievement
                             ELSE mpmActuals[id].achievement]
               ELSE mpmActuals'[id].score = mpmActuals[id].score]_vars

\* an update_actual has succeeded, actual 1 carries the score of its
\* indicator's present weight and actual 2, of the same indicator, the score
\* of an earlier weight
C5_Witness ==
    /\ last.op = "BSC_update_actual" /\ last.raised = "no"
    /\ Len(bscActuals) = 2
    /\ LiveIds(bscActuals) = {1, 2}
    /\ bscActuals[1].indicator_id = bscActuals[2].indicator_id
    /\ found(bscIndicators, bscActuals[1].indicator_id)
    /\ bscActuals[1].achievement = Decimal(50)
    /\ BSCDerived(bscActuals[1]) =
          BSC_create_table[bscIndicators[bscActuals[1].indicator_id].weight]
                          [bscActuals[1].achievement]
    /\ BSCDerived(bscActuals[2]) #
          BSC_create_table[bscIndicators[bscActuals[2].indicator_id].weight]
                          [bscActuals[2].achievement]

\* C6: every non-deleted actual references an indicator that exists and is
\* not deleted.
C6_ActualsReferenceLiveIndicators ==
    /\ \A a \in LiveIds(bscActuals) :
            bscActuals[a].indicator_id \in LiveIds(bscIndicators)
    /\ \A a \in LiveIds(mpmActuals) :
            mpmActuals[a].indicator_id \in LiveIds(mpmIndicators)

\* C7: create_actual (MPM and BSC) naming an indicator that does not exist or
\* is deleted fails with 404 and changes no table; naming a live indicator it
\* appends exactly one actual, of that indicator, and changes nothing else.
C7_CreateActual ==
    [][/\ last'.op = "BSC_create_actual" =>
          \A actual_in \in BSCActualCreate(RowIds(bscIndicators)) :
            BSC_create_actual(actual_in)
            => IF /\ actual_in.indicator_id \in Ids(bscIndicators)
                  /\ ~bscIndicators[actual_in.indicator_id].is_deleted
               THEN /\ last'.raised = "no"
                    /\ Len(bscActuals') = Len(bscActuals) + 1
                    /\ SubSeq(bscActuals', 1, Len(bscActuals)) = bscActuals
                    /\ bscActuals'[Len(bscActuals')].indicator_id = actual_in.indicator_id
                    /\ ~bscActuals'[Len(bscActuals')].is_deleted
                    /\ UNCHANGED <<periods, bscIndicators, mpmIndicators, mpmActuals>>
               ELSE /\ last'.raised = "HTTP_404"
                    /\ UNCHANGED <<periods, bscIndicators, bscActuals,
                                   mpmIndicators, mpmActuals>>
       /\ last'.op = "MPM_create_actual" =>
          \A body \in MPMActualBodies(RowIds(mpmIndicators)) :
            MPM_create_actual(body)
            => IF /\ body.indicator_id \in Ids(mpmIndicators)
                  /\ ~mpmIndicators[body.indicator_id].is_deleted
               THEN /\ last'.raised = "no"
                    /\ Len(mpmActuals') = Len(mpmActuals) + 1
                    /\ SubSeq(mpmActuals', 1, Len(mpmActuals)) = mpmActuals
                    /\ mpmActuals'[Len(mpmActuals')].indicator_id = body.indicator_id
                    /\ ~mpmActuals'[Len(mpmActuals')].is_deleted
                    /\ UNCHANGED <<periods, bscIndicators, bscActuals, mpmIndicators>>
               ELSE /\ last'.raised = "HTTP_404"
                    /\ UNCHANGED <<periods, bscIndicators, bscActuals,
                                   mpmIndicators, mpmActuals>>]_vars

\* create_actual has failed with 404 on a deleted indicator while another
\* actual is stored
C7_Witness ==
    /\ last.op = "MPM_create_actual" /\ last.raised = "HTTP_404"
    /\ \E i \in Ids(mpmIndicators) : mpmIndicators[i].is_deleted
    /\ LiveIds(mpmActuals) # {}

(***************************************************************************)
(* Properties of the dashboards.                                           *)
(***************************************************************************)
\* the sum of a sequence of Decimals, added from the left as "+=" does
RECURSIVE DecSum(_)
DecSum(seq) ==
    IF seq = <<>> THEN Decimal(0)
    ELSE DecAdd(DecSum(SubSeq(seq, 1, Len(seq) - 1)), seq[Len(seq)])

\* the perspective groups of the response, and a group's items with an actual
Buckets == {response.perspectives[j] : j \in 1..Len(response.perspectives)}
Paired(bucket) == SelectSeq(bucket.items, LAMBDA item : item.actual # 0)
ItemsOf(bucket) == {bucket.items[i] : i \in 1..Len(bucket.items)}

\* the most recently created non-deleted actual of an indicator, 0 for none
LatestActual(actuals, indicator) ==
    IF \E a \in LiveIds(actuals) : actuals[a].indicator_id = indicator
    THEN Max({a \in LiveIds(actuals) : actuals[a].indicator_id = indicator})
    ELSE 0

\* C8: in a dashboard (BSC and MPM) every bucket's total_weight is the sum of
\* the weights of all the indicators of the bucket, with or without actual.
C8_TotalWeight ==
    /\ last.op = "get_bsc_dashboard" =>
        \A b \in Buckets :
            b.total_weight =
                DecSum([i \in 1..Len(b.items) |-> bscIndicators[b.items[i].indicator].weight])
    /\ last.op = "get_mpm_dashboard" =>
        \A b \in Buckets :
            b.total_weight =
                DecSum([i \in 1..Len(b.items) |-> mpmIndicators[b.items[i].indicator].weight])

\* the MPM dashboard has a bucket "Other" of two indicators, weights 20 and
\* 50, of which one only has an actual
C8_Witness ==
    /\ last.op = "get_mpm_dashboard"
    /\ \E b \in Buckets :
        /\ b.perspective = "Other"
        /\ Len(b.items) = 2
        /\ Len(Paired(b)) = 1
        /\ b.total_weight = Decimal(70)

C10_PairsLatestActual ==
    /\ last.op = "get_bsc_dashboard" =>
        \A b \in Buckets : \A item \in ItemsOf(b) :
            item.actual = LatestActual(bscActuals, item.indicator)
    /\ last.op = "get_mpm_dashboard" =>
        \A b \in Buckets : \A item \in ItemsOf(b) :
            item.actual = LatestActual(mpmActuals, item.indicator)

(***************************************************************************)
(* Dashboard coverage: indicators of two periods that may be deactivated.  *)
(***************************************************************************)
InitCoverage ==
    /\ periods = <<[type |-> "Monthly", year |-> 2025, period |-> "1",
                    status |-> "Active", is_deleted |-> FALSE],
                   [type |-> "Monthly", year |-> 2025, period |-> "2",
                    status |-> "Draft", is_deleted |-> FALSE]>>
    /\ bscIndicators = <<>>
    /\ bscActuals = <<>>
    /\ mpmIndicators = <<>>
    /\ mpmActuals = <<>>
    /\ mpmActionPlans = <<>>
    /\ mpmQuarterlyData = <<>>
    /\ mpmMonthlyTargets = <<>>
    /\ inflight = NoRequests
    /\ last = NoCall
    /\ response = NoResponse

\* the periods of InitCoverage
CoveragePeriods == {1, 2}

\* BSCIndicatorUpdate / MPMIndicatorUpdate payloads that set is_active
IsActiveUpdate == Opt("is_active", BOOLEAN)

NextCoverage ==
    \/ \E indicator_in \in [code : BSCCodes, perspective : {"Financial"},
                            weight : {Decimal(20)}, period_id : CoveragePeriods] :
            BSC_create_indicator(indicator_in)
    \/ \E id \in Ids(bscIndicators), indicator_in \in IsActiveUpdate :
            BSC_update_indicator(id, indicator_in)
    \/ \E id \in Ids(bscIndicators) : BSCIndicator_delete(id)
    \/ \E actual_in \in [indicator_id : Ids(bscIndicators), actual_value : ActualValues,
                         achievement : {Decimal(50)}] :
            BSC_create_actual(actual_in)
    \/ \E period_id \in CoveragePeriods : get_bsc_dashboard(period_id)
    \/ \E indicator_in \in [kpi : MPMKpis, perspective : {"Financial"},
                            weight : {Decimal(20)}, period_id : CoveragePeriods] :
            MPM_create_indicator(indicator_in)
    \/ \E id \in Ids(mpmIndicators), indicator_in \in IsActiveUpdate :
            MPM_update_indicator(id, indicator_in)
    \/ \E id \in Ids(mpmIndicators) : MPMIndicator_delete(id)
    \/ \E body \in [indicator_id : Ids(mpmIndicators), actual_value : ActualValues,
                    achievement : {Decimal(80)}] :
            MPM_create_actual(body)
    \/ \E period_id \in CoveragePeriods : get_mpm_dashboard(period_id)

SpecCoverage == InitCoverage /\ [][NextCoverage]_vars

\* the indicators a dashboard result lists, over all its buckets
Listed ==
    UNION {{b.items[i].indicator : i \in 1..Len(b.items)} : b \in Buckets}

\* the indicators of a table the dashboard of a period is specified to cover
Covered(indicators, period_id) ==
    {i \in LiveIds(indicators) : /\ indicators[i].is_active
                                 /\ indicators[i].period_id = period_id}

\* the sum of the weights of a set of indicators
RECURSIVE WeightOf(_, _)
WeightOf(indicators, S) ==
    IF S = {} THEN Decimal(0)
    ELSE DecAdd(WeightOf(indicators, S \ {Max(S)}), indicators[Max(S)].weight)

\* C11: a dashboard covers exactly the active, non-deleted indicators of its
\* period: they are the indicators of its item lists, and their weights make
\* its total_weight.
C11_CoversActiveLive ==
    /\ last.op = "get_bsc_dashboard" =>
        /\ Listed = Covered(bscIndicators, response.period_id)
        /\ response.total_weight =
                WeightOf(bscIndicators, Covered(bscIndicators, response.period_id))
    /\ last.op = "get_mpm_dashboard" =>
        /\ Listed = Covered(mpmIndicators, response.period_id)
        /\ response.total_weight =
                WeightOf(mpmIndicators, Covered(mpmIndicators, response.period_id))

(***************************************************************************)
(* Dashboard totals.  A dashboard is a function of the tables: the tables  *)
(* are those three create_indicator and three create_actual calls leave,   *)
(* with weights of 100 and achievements of 28 significant digits.          *)
(***************************************************************************)
\* 50.00000000000000000000000002, 0.00000000000000000000000003 and 80
MPMTotalsAchievements ==
    {[c |-> <<5,0,0,0,0,0,0,0,0,0,0,0,0,0,0,0,0,0,0,0,0,0,0,0,0,0,0,2>>, e |-> -26],
     [c |-> <<3>>, e |-> -26],
     Decimal(80)}
BSCTotalsAchievements == {Decimal(3), Decimal(50), Decimal(80)}
TotalsWeight == Decimal(100)
TotalsCodes == <<"F1", "F2", "F3">>
TotalsKpis == <<"K1", "K2", "K3">>

\* bsc_indicator and bsc_actual after create_indicator of three codes with
\* perspectives p, then create_actual for each with achievements a
BSCTotalsIndicators(p) ==
    [i \in 1..3 |->
        [code |-> TotalsCodes[i], perspective |-> p[i], weight |-> TotalsWeight,
         is_active |-> TRUE, period_id |-> 1, is_deleted |-> FALSE]]
BSCTotalsActuals(a) ==
    [i \in 1..3 |->
        Merge(BSC_create_derived(TotalsWeight, a[i]),
              [indicator_id |-> i, actual_value |-> "v", achievement |-> a[i],
               problem_identification |-> None, is_deleted |-> FALSE])]

\* mpm_indicator and mpm_actual after the same calls on MPM
MPMTotalsIndicators(p) ==
    [i \in 1..3 |->
        [kpi |-> TotalsKpis[i], perspective |-> p[i],
         kpi_number |-> IF p[i] = None THEN 0
                        ELSE Cardinality({j \in 1..i : p[j] = p[i]}),
         weight |-> TotalsWeight, is_active |-> TRUE, period_id |-> 1,
         is_deleted |-> FALSE]]
MPMTotalsActuals(a) ==
    [i \in 1..3 |->
        Merge([score |-> MPM_create_score(TotalsWeight, a[i])],
              [indicator_id |-> i, actual_value |-> "v", achievement |-> a[i],
               problem_identification |-> None, is_deleted |-> FALSE])]

InitTotals ==
    /\ periods = <<[type |-> "Monthly", year |-> 2025, period |-> "1",
                    status |-> "Active", is_deleted |-> FALSE]>>
    /\ \/ /\ \E p \in [1..3 -> BSCPerspectives] :
                    bscIndicators = BSCTotalsIndicators(p)
           /\ \E a \in [1..3 -> BSCTotalsAchievements] :
                    bscActuals = BSCTotalsActuals(a)
           /\ mpmIndicators = <<>>
           /\ mpmActuals = <<>>
        \/ /\ \E p \in [1..3 -> MPMPerspectives] :
                    mpmIndicators = MPMTotalsIndicators(p)
           /\ \E a \in [1..3 -> MPMTotalsAchievements] :
                    mpmActuals = MPMTotalsActuals(a)
           /\ bscIndicators = <<>>
           /\ bscActuals = <<>>
    /\ mpmActionPlans = <<>>
    /\ mpmQuarterlyData = <<>>
    /\ mpmMonthlyTargets = <<>>
    /\ inflight = NoRequests
    /\ last = NoCall
    /\ response = NoResponse

NextTotals ==
    \/ \E period_id \in ScorePeriods : get_bsc_dashboard(period_id)
    \/ \E period_id \in ScorePeriods : get_mpm_dashboard(period_id)

SpecTotals == InitTotals /\ [][NextTotals]_vars


\* x + y exactly, with no rounding
ExactAdd(x, y) ==
    IF x.c = <<>> THEN Normalise(y) ELSE
    IF y.c = <<>> THEN Normalise(x) ELSE
    LET e  == IF x.e <= y.e THEN x.e ELSE y.e
        xc == x.c \o Zeros(x.e - e)
        yc == y.c \o Zeros(y.e - e)
        n  == IF Len(xc) >= Len(yc) THEN Len(xc) ELSE Len(yc)
    IN Normalise([c |-> FromLimbs(AddLimbs(ToLimbs(Zeros(n - Len(xc)) \o xc),
                                           ToLimbs(Zeros(n - Len(yc)) \o yc), 0)),
                  e |-> e])

\* the exact sum of a sequence of Decimals
RECURSIVE ExactSum(_)
ExactSum(seq) ==
    IF seq = <<>> THEN Decimal(0)
    ELSE ExactAdd(ExactSum(SubSeq(seq, 1, Len(seq) - 1)), seq[Len(seq)])

\* the value of a total in every bucket of the response, in bucket order
BucketTotals(field) ==
    [j \in 1..Len(response.perspectives) |-> response.perspectives[j][field]]

\* the places (bucket, position) at which an indicator is listed
PlacesOf(indicator) ==
    UNION {{<<j, n>> : n \in {m \in 1..Len(response.perspectives[j].items) :
                               response.perspectives[j].items[m].indicator = indicator}}
           : j \in 1..Len(response.perspectives)}

\* the indicators get_by_period hands to the dashboard
InPeriod(indicators, period_id) ==
    {i \in LiveIds(indicators) : indicators[i].period_id = period_id}

\* the bucket name of a perspective
BucketName(perspective) == IF perspective = None THEN "Other" ELSE perspective

\* the buckets partition the indicators by perspective
Partitioned(indicators) ==
    /\ \A i \in InPeriod(indicators, response.period_id) :
            Cardinality(PlacesOf(i)) = 1
    /\ \A j, k \in 1..Len(response.perspectives) :
            response.perspectives[j].perspective =
                response.perspectives[k].perspective => j = k
    /\ \A b \in Buckets : \A item \in ItemsOf(b) :
            b.perspective = BucketName(indicators[item.indicator].perspective)

\* C12: in a dashboard every indicator is in exactly one bucket, no two
\* buckets have the same perspective (an MPM indicator without perspective is
\* in the bucket "Other"), and each total of the period is the sum of that
\* total over the buckets.
C12_TotalsAreBucketSums ==
    /\ last.op = "get_bsc_dashboard" =>
        /\ Partitioned(bscIndicators)
        /\ \A field \in DOMAIN BSC_zero_totals :
                response[field] = ExactSum(BucketTotals(field))
    /\ last.op = "get_mpm_dashboard" =>
        /\ Partitioned(mpmIndicators)
        /\ \A field \in DOMAIN MPM_zero_totals :
                response[field] = ExactSum(BucketTotals(field))


(***************************************************************************)
(* The dashboards as reads.                                                *)
(***************************************************************************)
\* C13: a dashboard call changes no table, and a dashboard call that follows
\* a call of the same dashboard for the same period, with nothing written in
\* between, returns the same output.
C13_PureRead ==
    [][last'.op \in {"get_bsc_dashboard", "get_mpm_dashboard"} =>
        /\ UNCHANGED <<periods, bscIndicators, bscActuals, mpmIndicators,
                       mpmActuals, mpmActionPlans, mpmQuarterlyData>>
        /\ (last.op = last'.op /\ response.period_id = response'.period_id) =>
                response' = response]_vars


(***************************************************************************)
(* MPM action plans and their quarterly data: MPMActionPlanService,        *)
(* MPMQuarterlyDataService, MPMActionPlanRepository.                       *)
(***************************************************************************)
MaxPlans == 1
MaxQuarterly == 2

MPMStatus == {"On Track", "At Risk", "Off Track"}

\* quarter labels, in the order ORDER BY quarter gives them
QuarterLabels == <<"Q1", "Q2">>
QuarterRank(quarter) ==
    CHOOSE i \in 1..Len(QuarterLabels) : QuarterLabels[i] = quarter

\* 2.000000000000000000000000003, a target of 28 significant digits, and
\* 1.600000000000000000000000002, 0.8 times that target rounded to 28 digits
LongTarget ==
    [c |-> <<2,0,0,0,0,0,0,0,0,0,0,0,0,0,0,0,0,0,0,0,0,0,0,0,0,0,0,3>>, e |-> -27]
LongActual ==
    [c |-> <<1,6,0,0,0,0,0,0,0,0,0,0,0,0,0,0,0,0,0,0,0,0,0,0,0,0,0,2>>, e |-> -27]
PlanTargets == {Decimal(100), LongTarget}
PlanActuals == {Decimal(100), Decimal(80), Decimal(79), LongActual}

\* Decimal('0.8')
Decimal_0_8 == DecimalScaled(8, -1)

\* x >= y on Decimals: comparisons are exact, the context does not round them
DecGE(x, y) ==
    LET e  == IF x.e <= y.e THEN x.e ELSE y.e
        xc == x.c \o Zeros(x.e - e)
        yc == y.c \o Zeros(y.e - e)
        n  == IF Len(xc) >= Len(yc) THEN Len(xc) ELSE Len(yc)
        xd == Zeros(n - Len(xc)) \o xc
        yd == Zeros(n - Len(yc)) \o yc
        differ == {i \in 1..n : xd[i] # yd[i]}
    IN differ = {} \/ xd[Min(differ)] > yd[Min(differ)]

\* a faulty variant of status_of: both boundaries exclusive
status_of_exclusive(actual_value, target_value) ==
    IF ~DecGE(target_value, actual_value) THEN "On Track"
    ELSE IF ~DecGE(DecMul(target_value, Decimal_0_8), actual_value) THEN "At Risk"
    ELSE "Off Track"

\* MPMActionPlanRepository.calculate_status, the comparison of the latest
\* quarter's actual with its target
status_of(actual_value, target_value) ==
    IF DecGE(actual_value, target_value) THEN "On Track"
    ELSE IF DecGE(actual_value, DecMul(target_value, Decimal_0_8)) THEN "At Risk"
    ELSE "Off Track"

status_table ==
    [target_value \in PlanTargets |->
        [actual_value \in PlanActuals |-> status_of(actual_value, target_value)]]

\* a faulty variant of reported: soft-deleted rows are read too
reported_deleted_too(quarterly, action_plan_id) ==
    {d \in Ids(quarterly) :
        /\ quarterly[d].action_plan_id = action_plan_id
        /\ quarterly[d].actual_value # Null}

\* the rows calculate_status selects: the plan's non-deleted quarterly data
\* with an actual value
reported(quarterly, action_plan_id) ==
    {d \in LiveIds(quarterly) :
        /\ quarterly[d].action_plan_id = action_plan_id
        /\ quarterly[d].actual_value # Null}

\* a faulty variant of latest_quarter: ORDER BY quarter ascending
latest_quarter_ascending(quarterly, rows) ==
    {d \in rows : \A o \in rows :
        QuarterRank(quarterly[d].quarter) <= QuarterRank(quarterly[o].quarter)}

\* ORDER BY quarter DESC ... first(): the rows that may come first
latest_quarter(quarterly, rows) ==
    {d \in rows : \A o \in rows :
        QuarterRank(quarterly[d].quarter) >= QuarterRank(quarterly[o].quarter)}

\* MPMActionPlanRepository.calculate_status: the statuses the call may return
\* for the plan on the table quarterly (one, unless two rows tie for first)
calculate_status(quarterly, action_plan_id) ==
    IF reported(quarterly, action_plan_id) = {} THEN {"On Track"}
    ELSE {status_table[quarterly[d].target_value][quarterly[d].actual_value] :
            d \in latest_quarter(quarterly, reported(quarterly, action_plan_id))}

\* MPMQuarterlyDataRepository.get_by_quarter: whether a row is found
get_by_quarter(action_plan_id, quarter) ==
    \E d \in LiveIds(mpmQuarterlyData) :
        /\ mpmQuarterlyData[d].action_plan_id = action_plan_id
        /\ mpmQuarterlyData[d].quarter = quarter

PlanCalled(op, id, raised) == [op |-> op, id |-> id, arg |-> NoFields, raised |-> raised]

scoreVars == <<periods, bscIndicators, bscActuals, mpmIndicators, mpmActuals>>

\* MPMActionPlanService.create_action_plan (POST /mpm/action-plans)
create_action_plan(plan_in) ==
    /\ Len(mpmActionPlans) < MaxPlans
    /\ mpmActionPlans' =
            Append(mpmActionPlans,
                   Merge(plan_in, [status |-> "On Track", is_deleted |-> FALSE]))
    /\ last' = PlanCalled("create_action_plan", Len(mpmActionPlans) + 1, "no")
    /\ response' = NoResponse
    /\ UNCHANGED <<scoreVars, mpmQuarterlyData, mpmMonthlyTargets, inflight>>

\* MPMActionPlanService.update_action_plan (PATCH /mpm/action-plans/{id})
update_action_plan(plan_id, plan_in) ==
    /\ IF ~found(mpmActionPlans, plan_id)
       THEN /\ last' = PlanCalled("update_action_plan", plan_id, "HTTP_404")
            /\ UNCHANGED mpmActionPlans
       ELSE /\ mpmActionPlans' =
                    [mpmActionPlans EXCEPT ![plan_id] = apply_update(@, plan_in)]
            /\ last' = PlanCalled("update_action_plan", plan_id, "no")
    /\ response' = NoResponse
    /\ UNCHANGED <<scoreVars, mpmQuarterlyData, mpmMonthlyTargets, inflight>>

\* MPMActionPlanService.update_action_plan_status on the table quarterly:
\* the action-plan tables it may leave; found is FALSE when get_or_404 raises
status_updates(quarterly, plan_id) ==
    IF ~found(mpmActionPlans, plan_id) THEN {mpmActionPlans}
    ELSE {[mpmActionPlans EXCEPT ![plan_id] = apply_update(@, [status |-> status])] :
            status \in calculate_status(quarterly, plan_id)}

\* PATCH /mpm/action-plans/{id}/status
update_action_plan_status(plan_id) ==
    /\ mpmActionPlans' \in status_updates(mpmQuarterlyData, plan_id)
    /\ last' = PlanCalled("update_action_plan_status", plan_id,
                          IF found(mpmActionPlans, plan_id) THEN "no" ELSE "HTTP_404")
    /\ response' = NoResponse
    /\ UNCHANGED <<scoreVars, mpmQuarterlyData, mpmMonthlyTargets, inflight>>

\* BaseService.delete on action plans (DELETE /mpm/action-plans/{id})
MPMActionPlan_delete(id) ==
    /\ IF ~found(mpmActionPlans, id)
       THEN /\ last' = PlanCalled("MPMActionPlan_delete", id, "HTTP_404")
            /\ UNCHANGED mpmActionPlans
       ELSE /\ mpmActionPlans' = soft_delete(mpmActionPlans, id)
            /\ last' = PlanCalled("MPMActionPlan_delete", id, "no")
    /\ response' = NoResponse
    /\ UNCHANGED <<scoreVars, mpmQuarterlyData, mpmMonthlyTargets, inflight>>

\* MPMQuarterlyDataService.create_quarterly_data (POST /mpm/quarterly-data);
\* action_plan_id is a foreign key, so the commit of a row that names a plan
\* id with no row at all fails with IntegrityError; a row that names a
\* soft-deleted plan is committed, and the commit comes before the status is
\* refreshed
create_quarterly_data(data_in) ==
    /\ Len(mpmQuarterlyData) < MaxQuarterly
    /\ IF get_by_quarter(data_in.action_plan_id, data_in.quarter)
       THEN /\ last' = PlanCalled("create_quarterly_data", 0, "HTTP_400")
            /\ UNCHANGED planVars
       ELSE IF data_in.action_plan_id \notin Ids(mpmActionPlans)
       THEN /\ last' = PlanCalled("create_quarterly_data", 0, "IntegrityError")
            /\ UNCHANGED planVars
       ELSE /\ mpmQuarterlyData' =
                    Append(mpmQuarterlyData, Merge(data_in, [is_deleted |-> FALSE]))
            /\ IF data_in.actual_value # Null
               THEN /\ mpmActionPlans' \in
                        status_updates(mpmQuarterlyData', data_in.action_plan_id)
                    /\ last' = PlanCalled("create_quarterly_data",
                                          Len(mpmQuarterlyData) + 1,
                                          IF found(mpmActionPlans, data_in.action_plan_id)
                                          THEN "no" ELSE "HTTP_404")
               ELSE /\ UNCHANGED mpmActionPlans
                    /\ last' = PlanCalled("create_quarterly_data",
                                          Len(mpmQuarterlyData) + 1, "no")
    /\ response' = NoResponse
    /\ UNCHANGED <<scoreVars, mpmMonthlyTargets, inflight>>

\* MPMQuarterlyDataService.update_quarterly_data (PATCH /mpm/quarterly-data/{id})
update_quarterly_data(data_id, data_in) ==
    /\ IF ~found(mpmQuarterlyData, data_id)
       THEN /\ last' = PlanCalled("update_quarterly_data", data_id, "HTTP_404")
            /\ UNCHANGED planVars
       ELSE /\ mpmQuarterlyData' =
                    [mpmQuarterlyData EXCEPT ![data_id] = apply_update(@, data_in)]
            /\ IF "actual_value" \in DOMAIN data_in /\ data_in.actual_value # Null
               THEN /\ mpmActionPlans' \in
                        status_updates(mpmQuarterlyData',
                                       mpmQuarterlyData[data_id].action_plan_id)
                    /\ last' = PlanCalled("update_quarterly_data", data_id,
                                          IF found(mpmActionPlans,
                                                   mpmQuarterlyData[data_id].action_plan_id)
                                          THEN "no" ELSE "HTTP_404")
               ELSE /\ UNCHANGED mpmActionPlans
                    /\ last' = PlanCalled("update_quarterly_data", data_id, "no")
    /\ response' = NoResponse
    /\ UNCHANGED <<scoreVars, mpmMonthlyTargets, inflight>>

\* BaseService.delete on quarterly data (DELETE /mpm/quarterly-data/{id})
MPMQuarterlyData_delete(id) ==
    /\ IF ~found(mpmQuarterlyData, id)
       THEN /\ last' = PlanCalled("MPMQuarterlyData_delete", id, "HTTP_404")
            /\ UNCHANGED mpmQuarterlyData
       ELSE /\ mpmQuarterlyData' = soft_delete(mpmQuarterlyData, id)
            /\ last' = PlanCalled("MPMQuarterlyData_delete", id, "no")
    /\ response' = NoResponse
    /\ UNCHANGED <<scoreVars, mpmActionPlans, mpmMonthlyTargets, inflight>>

\* the request bodies
MPMActionPlanCreate == [indicator_id : {1}]
MPMActionPlanUpdate == Opt("status", MPMStatus)
MPMQuarterlyDataCreate ==
    [quarter : {QuarterLabels[i] : i \in 1..Len(QuarterLabels)},
     target_value : PlanTargets, actual_value : PlanActuals \cup {Null},
     action_plan_id : 1..MaxPlans]
MPMQuarterlyDataUpdate ==
    {Merge(t, a) : t \in Opt("target_value", PlanTargets),
                   a \in Opt("actual_value", PlanActuals \cup {Null})}

\* one Active period with the MPM indicator K1 that the plans belong to
InitPlan ==
    /\ periods = <<[type |-> "Monthly", year |-> 2025, period |-> "1",
                    status |-> "Active", is_deleted |-> FALSE]>>
    /\ bscIndicators = <<>>
    /\ bscActuals = <<>>
    /\ mpmIndicators = <<[kpi |-> "K1", perspective |-> "Financial", kpi_number |-> 1,
                          weight |-> Decimal(50), is_active |-> TRUE, period_id |-> 1,
                          is_deleted |-> FALSE]>>
    /\ mpmActuals = <<>>
    /\ mpmActionPlans = <<>>
    /\ mpmQuarterlyData = <<>>
    /\ mpmMonthlyTargets = <<>>
    /\ inflight = NoRequests
    /\ last = NoCall
    /\ response = NoResponse

NextPlan ==
    \/ \E plan_in \in MPMActionPlanCreate : create_action_plan(plan_in)
    \/ \E plan_id \in Ids(mpmActionPlans), plan_in \in MPMActionPlanUpdate :
            update_action_plan(plan_id, plan_in)
    \/ \E plan_id \in Ids(mpmActionPlans) : update_action_plan_status(plan_id)
    \/ \E id \in Ids(mpmActionPlans) : MPMActionPlan_delete(id)
    \/ \E data_in \in MPMQuarterlyDataCreate : create_quarterly_data(data_in)
    \/ \E data_id \in Ids(mpmQuarterlyData), data_in \in MPMQuarterlyDataUpdate :
            update_quarterly_data(data_id, data_in)
    \/ \E id \in Ids(mpmQuarterlyData) : MPMQuarterlyData_delete(id)

SpecPlan == InitPlan /\ [][NextPlan]_vars


(***************************************************************************)
(* Properties of the action-plan status.                                   *)
(***************************************************************************)
\* the plan has no non-deleted quarterly row with an actual value
Unreported(action_plan_id) ==
    \A d \in Ids(mpmQuarterlyData) :
        \/ mpmQuarterlyData[d].action_plan_id # action_plan_id
        \/ mpmQuarterlyData[d].is_deleted
        \/ mpmQuarterlyData[d].actual_value = Null

\* C14: for a plan with no non-deleted quarterly row that has an actual value
\* (no row, rows with null actual, soft-deleted rows) calculate_status returns
\* On Track, and update_action_plan_status stores it.
C14_DefaultOnTrack ==
    \A p \in Ids(mpmActionPlans) :
        Unreported(p) =>
            /\ calculate_status(mpmQuarterlyData, p) = {"On Track"}
            /\ (last.op = "update_action_plan_status" /\ last.raised = "no"
                    /\ last.id = p) =>
                    mpmActionPlans[p].status = "On Track"

\* update_action_plan_status has set a plan to On Track whose rows are a
\* soft-deleted one with an actual below 0.8 of its target and a live one
\* with no actual
C14_Witness ==
    /\ last.op = "update_action_plan_status"
    /\ last.raised = "no"
    /\ mpmActionPlans[last.id].status = "On Track"
    /\ Unreported(last.id)
    /\ \E d, n \in Ids(mpmQuarterlyData) :
        /\ mpmQuarterlyData[d].action_plan_id = last.id
        /\ mpmQuarterlyData[d].is_deleted
        /\ mpmQuarterlyData[d].actual_value = Decimal(79)
        /\ mpmQuarterlyData[d].target_value = Decimal(100)
        /\ mpmQuarterlyData[n].action_plan_id = last.id
        /\ ~mpmQuarterlyData[n].is_deleted
        /\ mpmQuarterlyData[n].actual_value = Null


\* the status of actual a against target t with the At Risk boundary given
Classified(a, t, boundary) ==
    IF DecGE(a, t) THEN "On Track"
    ELSE IF DecGE(a, boundary) THEN "At Risk" ELSE "Off Track"

\* the rows of a plan that calculate_status may select
Selected(p) == latest_quarter(mpmQuarterlyData, reported(mpmQuarterlyData, p))

StatusRefreshed ==
    last.op = "update_action_plan_status" /\ last.raised = "no"

\* C15, as the spec states it: with actual a and target t of the selected
\* row, calculate_status returns On Track when a >= t, At Risk when
\* 0.8 t <= a < t and Off Track when a < 0.8 t, the boundaries inclusive.
C15_ExactThresholds ==
    \A p \in Ids(mpmActionPlans) : \A d \in Selected(p) :
        LET a == mpmQuarterlyData[d].actual_value
            t == mpmQuarterlyData[d].target_value
            s == Classified(a, t, ExactProduct(t, Decimal_0_8))
        IN /\ calculate_status(mpmQuarterlyData, p) = {s}
           /\ (StatusRefreshed /\ last.id = p) => mpmActionPlans[p].status = s

\* C15, amended: the At Risk boundary is 0.8 t rounded half-even to 28
\* significant digits (0.8 t itself when it has no more digits): On Track
\* when a >= t, At Risk when round(0.8 t) <= a < t, Off Track below, the
\* boundaries inclusive.
C15_RoundedThresholds ==
    \A p \in Ids(mpmActionPlans) : \A d \in Selected(p) :
        LET a == mpmQuarterlyData[d].actual_value
            t == mpmQuarterlyData[d].target_value
            s == Classified(a, t, Normalise(Round(ExactProduct(t, Decimal_0_8))))
        IN /\ calculate_status(mpmQuarterlyData, p) = {s}
           /\ (StatusRefreshed /\ last.id = p) => mpmActionPlans[p].status = s

\* update_action_plan_status has stored At Risk for a plan whose selected row
\* has actual 80 and target 100
C15_Witness ==
    /\ StatusRefreshed
    /\ mpmActionPlans[last.id].status = "At Risk"
    /\ \E d \in Selected(last.id) :
        /\ mpmQuarterlyData[d].actual_value = Decimal(80)
        /\ mpmQuarterlyData[d].target_value = Decimal(100)


\* the non-deleted rows of plan p with an actual value that no other such row
\* exceeds in quarter
GreatestReported(quarterly, p) ==
    {d \in Ids(quarterly) :
        /\ quarterly[d].action_plan_id = p
        /\ ~quarterly[d].is_deleted
        /\ quarterly[d].actual_value # Null
        /\ \A o \in Ids(quarterly) :
            (/\ quarterly[o].action_plan_id = p
             /\ ~quarterly[o].is_deleted
             /\ quarterly[o].actual_value # Null)
                => QuarterRank(quarterly[o].quarter) <= QuarterRank(quarterly[d].quarter)}

\* C16: calculate_status is decided by the non-deleted row of greatest quarter
\* among those with an actual value: an update of the target or actual of an
\* earlier quarter's row, and the creation of a row with null actual, leave
\* the result as it was.
C16_LatestQuarterOnly ==
    [][\A p \in Ids(mpmActionPlans) :
        /\ GreatestReported(mpmQuarterlyData', p) # {} =>
            calculate_status(mpmQuarterlyData', p) =
                {status_table[mpmQuarterlyData'[d].target_value]
                             [mpmQuarterlyData'[d].actual_value] :
                    d \in GreatestReported(mpmQuarterlyData', p)}
        /\ (/\ last'.op = "update_quarterly_data"
            /\ found(mpmQuarterlyData, last'.id)
            /\ mpmQuarterlyData[last'.id].action_plan_id = p
            /\ \E d \in GreatestReported(mpmQuarterlyData, p) :
                QuarterRank(mpmQuarterlyData[last'.id].quarter) <
                    QuarterRank(mpmQuarterlyData[d].quarter))
            => calculate_status(mpmQuarterlyData', p) =
                    calculate_status(mpmQuarterlyData, p)
        /\ (/\ last'.op = "create_quarterly_data"
            /\ Len(mpmQuarterlyData') = Len(mpmQuarterlyData) + 1
            /\ mpmQuarterlyData'[Len(mpmQuarterlyData')].actual_value = Null)
            => calculate_status(mpmQuarterlyData', p) =
                    calculate_status(mpmQuarterlyData, p)]_vars

\* update_quarterly_data has acted on the row of Q1, whose actual 79 of
\* target 100 would be Off Track, while the row of Q2 has actual 100 of
\* target 100: the plan is On Track
C16_Witness ==
    /\ last.op = "update_quarterly_data"
    /\ last.raised = "no"
    /\ found(mpmQuarterlyData, last.id)
    /\ mpmQuarterlyData[last.id].quarter = "Q1"
    /\ mpmQuarterlyData[last.id].actual_value = Decimal(79)
    /\ mpmQuarterlyData[last.id].target_value = Decimal(100)
    /\ \E d \in LiveIds(mpmQuarterlyData) :
        /\ mpmQuarterlyData[d].action_plan_id = mpmQuarterlyData[last.id].action_plan_id
        /\ mpmQuarterlyData[d].quarter = "Q2"
        /\ mpmQuarterlyData[d].actual_value = Decimal(100)
        /\ mpmQuarterlyData[d].target_value = Decimal(100)
    /\ mpmActionPlans[mpmQuarterlyData[last.id].action_plan_id].status = "On Track"
    /\ calculate_status(mpmQuarterlyData, mpmQuarterlyData[last.id].action_plan_id)
            = {"On Track"}


\* C17: after a successful create_quarterly_data or update_quarterly_data on
\* a row whose actual value is then not null, the status stored on the row's
\* action plan is calculate_status of the plan's quarterly data.
C17_StatusFollowsData ==
    (/\ last.op \in {"create_quarterly_data", "update_quarterly_data"}
     /\ last.raised = "no"
     /\ mpmQuarterlyData[last.id].actual_value # Null)
        => mpmActionPlans[mpmQuarterlyData[last.id].action_plan_id].status \in
                calculate_status(mpmQuarterlyData,
                                 mpmQuarterlyData[last.id].action_plan_id)


(***************************************************************************)
(* Indicator identity: create, update, bulk import and delete of           *)
(* indicators over two periods.                                            *)
(***************************************************************************)
MaxBatch == 2

\* BSCIndicatorRepository.get_by_code / MPMIndicatorRepository.get_by_kpi on
\* the table as the import loop has left it
get_by_key(table, key, value, period_id) ==
    {i \in LiveIds(table) : table[i][key] = value /\ table[i].period_id = period_id}

\* BSCIndicatorService.bulk_import_indicators: the table after the loop; an
\* item whose code exists in its period is skipped
RECURSIVE BSC_bulk_import(_, _)
BSC_bulk_import(table, indicators) ==
    IF indicators = <<>> THEN table
    ELSE LET indicator_data == Head(indicators) IN
         BSC_bulk_import(
            IF get_by_key(table, "code", indicator_data.code,
                          indicator_data.period_id) # {}
            THEN table
            ELSE Append(table, [code |-> indicator_data.code,
                                perspective |-> indicator_data.perspective,
                                weight |-> indicator_data.weight,
                                is_active |-> TRUE,
                                period_id |-> indicator_data.period_id,
                                is_deleted |-> FALSE]),
            Tail(indicators))

\* a faulty variant of MPM_bulk_import: every item is checked against the
\* table as it was before the import
RECURSIVE MPM_bulk_import_unchecked(_, _)
MPM_bulk_import_unchecked(table, indicators) ==
    IF indicators = <<>> THEN table
    ELSE LET indicator_data == Head(indicators) IN
         MPM_bulk_import_unchecked(
            IF get_by_kpi(indicator_data.kpi, indicator_data.period_id) # {}
            THEN table
            ELSE Append(table, [kpi |-> indicator_data.kpi,
                                perspective |-> indicator_data.perspective,
                                kpi_number |-> 0,
                                weight |-> indicator_data.weight,
                                is_active |-> TRUE,
                                period_id |-> indicator_data.period_id,
                                is_deleted |-> FALSE]),
            Tail(indicators))

\* MPMIndicatorService.bulk_import_indicators: the table after the loop, for
\* items with no monthly targets and no action plans
RECURSIVE MPM_bulk_import(_, _)
MPM_bulk_import(table, indicators) ==
    IF indicators = <<>> THEN table
    ELSE LET indicator_data == Head(indicators) IN
         MPM_bulk_import(
            IF get_by_key(table, "kpi", indicator_data.kpi,
                          indicator_data.period_id) # {}
            THEN table
            ELSE Append(table,
                    [kpi |-> indicator_data.kpi,
                     perspective |-> indicator_data.perspective,
                     kpi_number |->
                        IF indicator_data.perspective # None
                        THEN Max({0} \cup
                                 {table[i].kpi_number :
                                    i \in {j \in LiveIds(table) :
                                        /\ table[j].perspective = indicator_data.perspective
                                        /\ table[j].period_id = indicator_data.period_id}}) + 1
                        ELSE 0,
                     weight |-> indicator_data.weight,
                     is_active |-> TRUE,
                     period_id |-> indicator_data.period_id,
                     is_deleted |-> FALSE]),
            Tail(indicators))

MayImport(indicators) ==
    Len(bscIndicators) + Len(mpmIndicators) + Len(indicators) <= MaxIndicators

\* POST /bsc/indicators/bulk
BSC_bulk_import_indicators(indicators) ==
    /\ MayImport(indicators)
    /\ bscIndicators' = BSC_bulk_import(bscIndicators, indicators)
    /\ last' = [op |-> "BSC_bulk_import_indicators", id |-> 0, arg |-> indicators,
                 raised |-> "no"]
    /\ response' = NoResponse
    /\ UNCHANGED <<periods, bscActuals, mpmIndicators, mpmActuals>>
    /\ UNCHANGED planVars

\* POST /mpm/indicators/bulk
MPM_bulk_import_indicators(indicators) ==
    /\ MayImport(indicators)
    /\ mpmIndicators' = MPM_bulk_import(mpmIndicators, indicators)
    /\ last' = [op |-> "MPM_bulk_import_indicators", id |-> 0, arg |-> indicators,
                 raised |-> "no"]
    /\ response' = NoResponse
    /\ UNCHANGED <<periods, bscIndicators, bscActuals, mpmActuals>>
    /\ UNCHANGED planVars

\* the request bodies
BSCIndicatorBodies ==
    [code : BSCCodes, perspective : {"Financial"}, weight : {Decimal(20)},
     period_id : CoveragePeriods]
MPMIndicatorBodies ==
    [kpi : MPMKpis, perspective : {"Financial"}, weight : {Decimal(20)},
     period_id : CoveragePeriods]
BSCIdentityUpdate ==
    {Merge(c, p) : c \in Opt("code", BSCCodes), p \in Opt("period_id", CoveragePeriods)}
MPMIdentityUpdate == Opt("kpi", MPMKpis)
Batches(items) == UNION {[1..n -> items] : n \in 1..MaxBatch}

NextIndicator ==
    \/ \E indicator_in \in BSCIndicatorBodies : BSC_create_indicator(indicator_in)
    \/ \E id \in Ids(bscIndicators), indicator_in \in BSCIdentityUpdate :
            BSC_update_indicator(id, indicator_in)
    \/ \E id \in Ids(bscIndicators) : BSCIndicator_delete(id)
    \/ \E indicators \in Batches(BSCIndicatorBodies) :
            BSC_bulk_import_indicators(indicators)
    \/ \E indicator_in \in MPMIndicatorBodies : MPM_create_indicator(indicator_in)
    \/ \E id \in Ids(mpmIndicators), indicator_in \in MPMIdentityUpdate :
            MPM_update_indicator(id, indicator_in)
    \/ \E id \in Ids(mpmIndicators) : MPMIndicator_delete(id)
    \/ \E indicators \in Batches(MPMIndicatorBodies) :
            MPM_bulk_import_indicators(indicators)

SpecIndicator == InitCoverage /\ [][NextIndicator]_vars

\* C18: no two non-deleted BSC indicators have the same code and period_id,
\* whatever create_indicator, update_indicator (of code, of period_id),
\* bulk_import_indicators and delete have done.
C18_BSCCodeUnique ==
    \A i, j \in LiveIds(bscIndicators) :
        (/\ bscIndicators[i].code = bscIndicators[j].code
         /\ bscIndicators[i].period_id = bscIndicators[j].period_id) => i = j


Taken(table, key, value, period_id, id) ==
    \E o \in Ids(table) :
        /\ o # id
        /\ ~table[o].is_deleted
        /\ table[o][key] = value
        /\ table[o].period_id = period_id

indicatorTables ==
    <<periods, bscIndicators, bscActuals, mpmIndicators, mpmActuals,
      mpmActionPlans, mpmQuarterlyData>>

C27_StoredStatusCurrent ==
    \A p \in LiveIds(mpmActionPlans) :
        mpmActionPlans[p].status \in calculate_status(mpmQuarterlyData, p)


(***************************************************************************)
(* The status code the PATCH /periods/{id}/status route answers with.      *)
(***************************************************************************)
\* api.period.update_period_status: an HTTPException of the service is
\* re-raised as it is, any other exception becomes a 500 response
update_period_status_route(raised) ==
    CASE raised = "no" -> "HTTP_200"
      [] raised \in {"HTTP_400", "HTTP_404"} -> raised
      [] OTHER -> "HTTP_500"

\* C25: a call that activates a live period while a different non-deleted
\* period is Active, and is refused, is answered with status 400 and not
\* with an internal server error.
C25_ConflictIs400 ==
    [][(/\ last'.op = "update_period_status"
        /\ last'.arg.status = "Active"
        /\ last'.raised # "no"
        /\ found(periods, last'.id)
        /\ \E other \in ActivePeriods : other # last'.id)
       => update_period_status_route(last'.raised) = "HTTP_400"]_vars


\* C29: no two non-deleted periods have the same type, year and period.
C29_TripleUnique ==
    \A i, j \in LiveIds(periods) :
        (/\ periods[i].type = periods[j].type
         /\ periods[i].year = periods[j].year
         /\ periods[i].period = periods[j].period) => i = j


\* C30: a create_quarterly_data call made while no action plan is live (so
\* its action_plan_id resolves to no non-deleted plan) fails with NotFound
\* and leaves no row, and no call leaves a new row whose action plan is not
\* live.
C30_UnknownPlanRejected ==
    [][last'.op = "create_quarterly_data" =>
        /\ LiveIds(mpmActionPlans) = {} =>
                /\ last'.raised = "HTTP_404"
                /\ mpmQuarterlyData' = mpmQuarterlyData
        /\ Len(mpmQuarterlyData') > Len(mpmQuarterlyData) =>
                found(mpmActionPlans,
                      mpmQuarterlyData'[Len(mpmQuarterlyData')].action_plan_id)]_vars


\* C26: the score of every non-deleted MPM actual, and the derived fields of
\* every non-deleted BSC actual, are what create_actual or update_actual
\* computes from the stored achievement and the weight its indicator has now.
C26_ScoresFollowWeight ==
    /\ \A a \in LiveIds(mpmActuals) :
            LET w == mpmIndicators[mpmActuals[a].indicator_id].weight
                x == mpmActuals[a].achievement
            IN mpmActuals[a].score \in {MPM_create_table[w][x], MPM_update_table[w][x]}
    /\ \A a \in LiveIds(bscActuals) :
            LET w == bscIndicators[bscActuals[a].indicator_id].weight
                x == bscActuals[a].achievement
            IN BSCDerived(bscActuals[a]) \in
                    {BSC_create_table[w][x], BSC_update_table[w][x]}


(***************************************************************************)
(* Indicator requests from the routes on: the schema's validation of the   *)
(* body, bulk import with monthly targets and action plans, Excel upload.  *)
(***************************************************************************)
\* a weight as a request carries it: a Decimal with its sign (1 is negative)
Signed(sign, x) == [sign |-> sign, c |-> x.c, e |-> x.e]

\* 20, 100, 100.01 and -1
RawWeights ==
    {Signed(0, Decimal(20)), Signed(0, Decimal(100)),
     Signed(0, DecimalScaled(10001, -2)), Signed(1, Decimal(1))}
ImportWeights == {Signed(0, Decimal(20)), Signed(0, DecimalScaled(10001, -2))}

\* a faulty variant of weight_field: the lower limit is not checked
weight_field_le_only(weight) ==
    weight.sign = 1 \/ DecGE(Decimal(100), weight)

\* weight: Decimal = Field(ge=0, le=100)
weight_field(weight) ==
    /\ weight.sign = 0 \/ weight.c = <<>>
    /\ weight.sign = 1 \/ DecGE(Decimal(100), weight)

\* the values of BSCUOM and of MPMUOM
BSCUOM == {"Currency", "Number", "Days", "%", "Kriteria"}
MPMUOM == {"Number", "%", "Days", "Kriteria", "Number (Ton)"}
RowUoms == {"Number", "Tonnes"}

\* what the database does with the creates of one item of an import: all
\* succeed, or the create of the indicator, of its first monthly target or of
\* its first action plan raises
Faults == {"none", "indicator", "target", "plan"}

\* the items of a bulk import and the rows of an uploaded sheet
Months == <<"Jan-25">>
ImportPlans == <<[description |-> "plan"]>>
BSCImportItems ==
    [code : BSCCodes, perspective : {"Financial"}, weight : ImportWeights,
     uom : {"Number"}, period_id : ScorePeriods]
MPMImportItems ==
    [kpi : MPMKpis, perspective : {"Financial"}, weight : ImportWeights,
     uom : {"Number"}, period_id : ScorePeriods,
     related : {[monthly_targets |-> <<>>, action_plans |-> <<>>],
                [monthly_targets |-> Months, action_plans |-> ImportPlans]}]
BSCSheetRows == [Code : BSCCodes, Weight : ImportWeights, UOM : RowUoms]
MPMSheetRows == [KPI : MPMKpis, Weight : ImportWeights, UOM : RowUoms]
BSCWeightUpdate == Opt("weight", RawWeights)
MPMWeightUpdate == Opt("weight", RawWeights)

\* pydantic's validation of a body against BSCIndicatorCreate /
\* BSCIndicatorUpdate / BSCBulkImportItem and the MPM schemas
BSCIndicatorBase_valid(body) ==
    /\ "weight" \in DOMAIN body => weight_field(body.weight)
    /\ "uom" \in DOMAIN body => body.uom \in BSCUOM
MPMIndicatorBase_valid(body) ==
    /\ "weight" \in DOMAIN body => weight_field(body.weight)
    /\ "uom" \in DOMAIN body => body.uom \in MPMUOM

\* a request the route's body validation refuses: 422, the handler never runs
Unprocessable(op) ==
    /\ last' = Called(op, "HTTP_422")
    /\ response' = NoResponse
    /\ UNCHANGED <<scoreVars, planVars>>

\* POST /bsc/indicators and PATCH /bsc/indicators/{id}
BSC_create_indicator_route(indicator_in) ==
    IF ~BSCIndicatorBase_valid(indicator_in)
    THEN Unprocessable("BSC_create_indicator")
    ELSE BSC_create_indicator(indicator_in)
BSC_update_indicator_route(indicator_id, indicator_in) ==
    IF ~BSCIndicatorBase_valid(indicator_in)
    THEN Unprocessable("BSC_update_indicator")
    ELSE BSC_update_indicator(indicator_id, indicator_in)

\* POST /mpm/indicators and PATCH /mpm/indicators/{id}
MPM_create_indicator_route(indicator_in) ==
    IF ~MPMIndicatorBase_valid(indicator_in)
    THEN Unprocessable("MPM_create_indicator")
    ELSE MPM_create_indicator(indicator_in)
MPM_update_indicator_route(indicator_id, indicator_in) ==
    IF ~MPMIndicatorBase_valid(indicator_in)
    THEN Unprocessable("MPM_update_indicator")
    ELSE MPM_update_indicator(indicator_id, indicator_in)

\* an import's inputs: each item with what the database does with its creates
\* (a fault is drawn where the item has the create it names)
BSCImportInputs ==
    {[item |-> i, fault |-> f] : i \in BSCImportItems, f \in {"none", "indicator"}}
MPMImportInputs ==
    {x \in [item : MPMImportItems, fault : Faults] :
        x.fault \in {"target", "plan"} => x.item.related.monthly_targets # <<>>}
BSCSheetInputs ==
    {[item |-> r, fault |-> f] : r \in BSCSheetRows, f \in {"none", "indicator"}}
MPMSheetInputs ==
    {[item |-> r, fault |-> f] : r \in MPMSheetRows, f \in {"none", "indicator"}}

\* one pass of the loop of BSCIndicatorService.bulk_import_indicators: an
\* item whose code exists is skipped, an item whose create raises is caught
\* and skipped, any other item is created (and committed) and listed
BSC_import_item(st, indicator_data, fault) ==
    IF get_by_key(st.indicators, "code", indicator_data.code,
                  indicator_data.period_id) # {}
    THEN st
    ELSE IF fault = "indicator" THEN st
    ELSE [indicators |->
            Append(st.indicators, [code |-> indicator_data.code,
                                   perspective |-> indicator_data.perspective,
                                   weight |-> indicator_data.weight,
                                   is_active |-> TRUE,
                                   period_id |-> indicator_data.period_id,
                                   is_deleted |-> FALSE]),
          created_indicators |-> Append(st.created_indicators, Len(st.indicators) + 1)]

RECURSIVE BSC_import_loop(_, _)
BSC_import_loop(st, inputs) ==
    IF inputs = <<>> THEN st
    ELSE BSC_import_loop(BSC_import_item(st, Head(inputs).item, Head(inputs).fault),
                         Tail(inputs))

\* one pass of the loop of MPMIndicatorService.bulk_import_indicators: every
\* repository create commits on its own, so what was created before a create
\* raises stays; the item is listed after its last create
MPM_import_item(st, indicator_data, fault) ==
    IF get_by_key(st.indicators, "kpi", indicator_data.kpi,
                  indicator_data.period_id) # {}
    THEN st
    ELSE IF fault = "indicator" THEN st
    ELSE
    LET id == Len(st.indicators) + 1
        monthly_targets == indicator_data.related.monthly_targets
        action_plans == indicator_data.related.action_plans
        indicator ==
            [kpi |-> indicator_data.kpi,
             perspective |-> indicator_data.perspective,
             kpi_number |->
                IF indicator_data.perspective # None
                THEN Max({0} \cup
                         {st.indicators[i].kpi_number :
                            i \in {j \in LiveIds(st.indicators) :
                                /\ st.indicators[j].perspective = indicator_data.perspective
                                /\ st.indicators[j].period_id = indicator_data.period_id}}) + 1
                ELSE 0,
             weight |-> indicator_data.weight,
             is_active |-> TRUE,
             period_id |-> indicator_data.period_id,
             is_deleted |-> FALSE]
        withIndicator == [st EXCEPT !.indicators = Append(@, indicator)]
        withTargets ==
            [withIndicator EXCEPT !.monthly_targets = @ \o
                [i \in 1..Len(monthly_targets) |->
                    [month |-> monthly_targets[i], indicator_id |-> id,
                     is_deleted |-> FALSE]]]
        withPlans ==
            [withTargets EXCEPT !.action_plans = @ \o
                [i \in 1..Len(action_plans) |->
                    [indicator_id |-> id, status |-> "On Track",
                     is_deleted |-> FALSE]]]
    IN IF fault = "target" /\ monthly_targets # <<>> THEN withIndicator
       ELSE IF fault = "plan" /\ action_plans # <<>> THEN withTargets
       ELSE [withPlans EXCEPT !.created_items = Append(@, id)]

RECURSIVE MPM_import_loop(_, _)
MPM_import_loop(st, inputs) ==
    IF inputs = <<>> THEN st
    ELSE MPM_import_loop(MPM_import_item(st, Head(inputs).item, Head(inputs).fault),
                         Tail(inputs))

\* what a route records of its call: the inputs and the answer
ImportCalled(op, inputs, raised) ==
    [op |-> op, id |-> 0, arg |-> inputs, raised |-> raised]

BSC_service_import(inputs) ==
    LET st == BSC_import_loop([indicators |-> bscIndicators,
                               created_indicators |-> <<>>], inputs) IN
    /\ bscIndicators' = st.indicators
    /\ response' = [created |-> st.created_indicators]
    /\ UNCHANGED <<periods, bscActuals, mpmIndicators, mpmActuals>>
    /\ UNCHANGED planVars

MPM_service_import(inputs) ==
    LET st == MPM_import_loop([indicators |-> mpmIndicators,
                               monthly_targets |-> mpmMonthlyTargets,
                               action_plans |-> mpmActionPlans,
                               created_items |-> <<>>], inputs) IN
    /\ mpmIndicators' = st.indicators
    /\ mpmMonthlyTargets' = st.monthly_targets
    /\ mpmActionPlans' = st.action_plans
    /\ response' = [created |-> st.created_items]
    /\ UNCHANGED <<periods, bscIndicators, bscActuals, mpmActuals, mpmQuarterlyData,
                   inflight>>

\* a route that refuses the whole request
Refused(op, inputs, raised) ==
    /\ last' = ImportCalled(op, inputs, raised)
    /\ response' = NoResponse
    /\ UNCHANGED <<scoreVars, planVars>>

\* POST /bsc/indicators/bulk: the body is validated as a whole
BSC_bulk_import_route(inputs) ==
    /\ MayImport(inputs)
    /\ IF \E i \in 1..Len(inputs) : ~BSCIndicatorBase_valid(inputs[i].item)
       THEN Refused("BSC_bulk_import", inputs, "HTTP_422")
       ELSE /\ BSC_service_import(inputs)
            /\ last' = ImportCalled("BSC_bulk_import", inputs, "no")

\* POST /mpm/indicators/bulk: the body is validated as a whole
MPM_bulk_import_route(inputs) ==
    /\ MayImport(inputs)
    /\ IF \E i \in 1..Len(inputs) : ~MPMIndicatorBase_valid(inputs[i].item)
       THEN Refused("MPM_bulk_import", inputs, "HTTP_422")
       ELSE /\ MPM_service_import(inputs)
            /\ last' = ImportCalled("MPM_bulk_import", inputs, "no")

\* the rows of the sheet the BSC upload keeps: a row with an unknown UOM
\* raises ValueError and a row BSCBulkImportItem refuses raises
\* ValidationError, both inside the try of the row
RECURSIVE BSC_sheet_items(_, _)
BSC_sheet_items(inputs, period_id) ==
    IF inputs = <<>> THEN <<>>
    ELSE LET row == Head(inputs).item
             indicator == [code |-> row.Code, perspective |-> "Financial",
                           weight |-> row.Weight, uom |-> row.UOM,
                           period_id |-> period_id]
         IN (IF row.UOM \in BSCUOM /\ BSCIndicatorBase_valid(indicator)
             THEN <<[item |-> indicator, fault |-> Head(inputs).fault]>>
             ELSE <<>>) \o BSC_sheet_items(Tail(inputs), period_id)

\* the rows of the sheet the MPM upload keeps: a row with an unknown UOM
\* raises ValueError inside the try of the row; the row becomes a dict, which
\* nothing validates yet
RECURSIVE MPM_sheet_items(_, _)
MPM_sheet_items(inputs, period_id) ==
    IF inputs = <<>> THEN <<>>
    ELSE LET row == Head(inputs).item
             indicator == [kpi |-> row.KPI, perspective |-> "Financial",
                           weight |-> row.Weight, uom |-> row.UOM,
                           period_id |-> period_id,
                           related |-> [monthly_targets |-> <<>>,
                                        action_plans |-> <<>>]]
         IN (IF row.UOM \in MPMUOM
             THEN <<[item |-> indicator, fault |-> Head(inputs).fault]>>
             ELSE <<>>) \o MPM_sheet_items(Tail(inputs), period_id)

\* POST /bsc/indicators/upload
BSC_upload_indicators(inputs, period_id) ==
    /\ MayImport(inputs)
    /\ LET kept == BSC_sheet_items(inputs, period_id) IN
        /\ BSC_service_import(kept)
        /\ last' = ImportCalled("BSC_upload_indicators", inputs, "no")

\* POST /mpm/indicators/upload: MPMBulkImport(indicators=...) validates the
\* kept rows together, outside the try of the rows; its ValidationError
\* reaches the route's except Exception
MPM_upload_indicators(inputs, period_id) ==
    /\ MayImport(inputs)
    /\ LET kept == MPM_sheet_items(inputs, period_id) IN
        IF \E i \in 1..Len(kept) : ~MPMIndicatorBase_valid(kept[i].item)
        THEN Refused("MPM_upload_indicators", inputs, "HTTP_500")
        ELSE /\ MPM_service_import(kept)
             /\ last' = ImportCalled("MPM_upload_indicators", inputs, "no")


NextImport ==
    \/ \E indicator_in \in BSCIndicatorCreate(BSCCodes, {"Financial"}, RawWeights) :
            BSC_create_indicator_route(indicator_in)
    \/ \E id \in RowIds(bscIndicators), indicator_in \in BSCWeightUpdate :
            BSC_update_indicator_route(id, indicator_in)
    \/ \E indicator_in \in MPMIndicatorCreate(MPMKpis, {"Financial"}, RawWeights) :
            MPM_create_indicator_route(indicator_in)
    \/ \E id \in RowIds(mpmIndicators), indicator_in \in MPMWeightUpdate :
            MPM_update_indicator_route(id, indicator_in)
    \/ \E inputs \in Batches(BSCImportInputs) : BSC_bulk_import_route(inputs)
    \/ \E inputs \in Batches(MPMImportInputs) : MPM_bulk_import_route(inputs)
    \/ \E inputs \in Batches(BSCSheetInputs), period_id \in ScorePeriods :
            BSC_upload_indicators(inputs, period_id)
    \/ \E inputs \in Batches(MPMSheetInputs), period_id \in ScorePeriods :
            MPM_upload_indicators(inputs, period_id)

SpecImport == InitScore /\ [][NextImport]_vars

\* a weight of [0, 100]
InRange(weight) == weight.sign = 0 /\ DecGE(Decimal(100), weight)

StoredWeightsInRange ==
    /\ \A i \in Ids(bscIndicators) : InRange(bscIndicators[i].weight)
    /\ \A i \in Ids(mpmIndicators) : InRange(mpmIndicators[i].weight)

RejectedUnchanged ==
    /\ last'.raised = "HTTP_422"
    /\ UNCHANGED <<scoreVars, planVars>>

\* C23: every stored BSC and MPM indicator has a weight in [0, 100], and a
\* create or update request whose weight is outside [0, 100] is answered with
\* a validation error and changes no table.
C23_WeightInRange ==
    /\ []StoredWeightsInRange
    /\ [][/\ last'.op = "BSC_create_indicator" =>
            \A indicator_in \in BSCIndicatorCreate(BSCCodes, {"Financial"}, RawWeights) :
                (/\ BSC_create_indicator_route(indicator_in)
                 /\ ~InRange(indicator_in.weight)) => RejectedUnchanged
          /\ last'.op = "BSC_update_indicator" =>
            \A id \in RowIds(bscIndicators), indicator_in \in BSCWeightUpdate :
                (/\ BSC_update_indicator_route(id, indicator_in)
                 /\ "weight" \in DOMAIN indicator_in
                 /\ ~InRange(indicator_in.weight)) => RejectedUnchanged
          /\ last'.op = "MPM_create_indicator" =>
            \A indicator_in \in MPMIndicatorCreate(MPMKpis, {"Financial"}, RawWeights) :
                (/\ MPM_create_indicator_route(indicator_in)
                 /\ ~InRange(indicator_in.weight)) => RejectedUnchanged
          /\ last'.op = "MPM_update_indicator" =>
            \A id \in RowIds(mpmIndicators), indicator_in \in MPMWeightUpdate :
                (/\ MPM_update_indicator_route(id, indicator_in)
                 /\ "weight" \in DOMAIN indicator_in
                 /\ ~InRange(indicator_in.weight)) => RejectedUnchanged]_vars

\* an update of a stored indicator was refused for its weight, and an
\* indicator of weight 100 is stored
C23_Witness ==
    /\ last.op = "MPM_update_indicator"
    /\ last.raised = "HTTP_422"
    /\ \E i \in LiveIds(mpmIndicators) : mpmIndicators[i].weight = Signed(0, Decimal(100))
    /\ \E i \in LiveIds(bscIndicators) : bscIndicators[i].weight = Signed(0, Decimal(20))


\* the key and the well-formedness of an item of a bulk import or of a row of
\* a sheet, and the table an import writes
ImportOps ==
    {"BSC_bulk_import", "MPM_bulk_import", "BSC_upload_indicators",
     "MPM_upload_indicators"}
KeyOf(x) ==
    IF "code" \in DOMAIN x THEN x.code
    ELSE IF "kpi" \in DOMAIN x THEN x.kpi
    ELSE IF "Code" \in DOMAIN x THEN x.Code ELSE x.KPI
WellFormed(op, x) ==
    /\ InRange(IF "weight" \in DOMAIN x THEN x.weight ELSE x.Weight)
    /\ (IF "uom" \in DOMAIN x THEN x.uom ELSE x.UOM) \in
            (IF op \in {"BSC_bulk_import", "BSC_upload_indicators"}
             THEN BSCUOM ELSE MPMUOM)
KeysIn(table) ==
    {IF "code" \in DOMAIN table[i] THEN table[i].code ELSE table[i].kpi :
        i \in LiveIds(table)}
ImportTable(op) ==
    IF op \in {"BSC_bulk_import", "BSC_upload_indicators"}
    THEN bscIndicators ELSE mpmIndicators

\* C21: an import (bulk route or Excel upload, BSC or MPM) never fails as a
\* call, and every row that is well formed, whose creates all succeed and
\* whose code or KPI is not yet in the period is created and listed in the
\* result, whatever the other rows of the import are.
C21_SkipAndContinue ==
    [][last'.op \in ImportOps =>
        /\ last'.raised = "no"
        /\ \A i \in 1..Len(last'.arg) :
            (/\ WellFormed(last'.op, last'.arg[i].item)
             /\ last'.arg[i].fault = "none"
             /\ KeyOf(last'.arg[i].item) \notin KeysIn(ImportTable(last'.op)))
            => \E id \in {response'.created[k] : k \in 1..Len(response'.created)} :
                LET written == IF last'.op \in {"BSC_bulk_import", "BSC_upload_indicators"}
                               THEN bscIndicators' ELSE mpmIndicators'
                IN /\ id \in LiveIds(written)
                   /\ KeysIn(<<written[id]>>) = {KeyOf(last'.arg[i].item)}]_vars


\* the rows of a table that belong to an indicator
RowsOf(table, indicator_id) ==
    {r \in Ids(table) : table[r].indicator_id = indicator_id}

\* C22: after an MPM import every indicator the call has persisted is listed
\* in the result and is stored with all the monthly targets and all the
\* action plans of its item; an item that is not listed has left no row.
C22_RowAtomic ==
    [][last'.op \in {"MPM_bulk_import", "MPM_upload_indicators"} =>
        \A id \in (Len(mpmIndicators) + 1)..Len(mpmIndicators') :
            /\ \E k \in 1..Len(response'.created) : response'.created[k] = id
            /\ \E i \in 1..Len(last'.arg) :
                /\ KeyOf(last'.arg[i].item) = mpmIndicators'[id].kpi
                /\ "related" \in DOMAIN last'.arg[i].item =>
                    /\ Cardinality(RowsOf(mpmMonthlyTargets', id)) =
                            Len(last'.arg[i].item.related.monthly_targets)
                    /\ Cardinality(RowsOf(mpmActionPlans', id)) =
                            Len(last'.arg[i].item.related.action_plans)]_vars


(***************************************************************************)
(* Soft delete: MPM indicators, their actuals, action plans and quarterly  *)
(* data are created, updated, deleted and read.                            *)
(***************************************************************************)
\* the rows of the four tables
DeleteRows ==
    Len(mpmIndicators) + Len(mpmActuals) + Len(mpmActionPlans) + Len(mpmQuarterlyData)

\* the payloads
DeleteIndicatorCreate == MPMIndicatorCreate(MPMKpis, {"Financial"}, {Decimal(20)})
DeleteIndicatorUpdate == Opt("weight", {Decimal(50)})
DeleteActualBodies(ids) ==
    [indicator_id : ids, actual_value : ActualValues, achievement : {Decimal(80)}]
DeleteActualUpdate == Opt("achievement", {Decimal(80)})
DeleteQuarterlyCreate ==
    [quarter : {QuarterLabels[i] : i \in 1..Len(QuarterLabels)},
     target_value : {Decimal(100)}, actual_value : {Decimal(79)},
     action_plan_id : 1..MaxPlans]
DeleteQuarterlyUpdate == Opt("actual_value", {Decimal(100)})

NextDelete ==
    \/ \E indicator_in \in DeleteIndicatorCreate :
            DeleteRows <= MaxRows /\ MPM_create_indicator(indicator_in)
    \/ \E id \in RowIds(mpmIndicators), indicator_in \in DeleteIndicatorUpdate :
            MPM_update_indicator(id, indicator_in)
    \/ \E id \in RowIds(mpmIndicators) : MPMIndicator_delete(id)
    \/ \E body \in DeleteActualBodies(RowIds(mpmIndicators)) :
            DeleteRows <= MaxRows /\ MPM_create_actual(body)
    \/ \E id \in RowIds(mpmActuals), actual_in \in DeleteActualUpdate :
            MPM_update_actual(id, actual_in)
    \/ \E id \in RowIds(mpmActuals) : MPMActual_delete(id)
    \/ \E period_id \in ScorePeriods : get_mpm_dashboard(period_id)
    \/ \E plan_in \in MPMActionPlanCreate :
            DeleteRows <= MaxRows /\ create_action_plan(plan_in)
    \/ \E plan_id \in RowIds(mpmActionPlans), plan_in \in MPMActionPlanUpdate :
            update_action_plan(plan_id, plan_in)
    \/ \E plan_id \in RowIds(mpmActionPlans) : update_action_plan_status(plan_id)
    \/ \E id \in RowIds(mpmActionPlans) : MPMActionPlan_delete(id)
    \/ \E data_in \in DeleteQuarterlyCreate :
            DeleteRows <= MaxRows /\ create_quarterly_data(data_in)
    \/ \E data_id \in RowIds(mpmQuarterlyData), data_in \in DeleteQuarterlyUpdate :
            update_quarterly_data(data_id, data_in)
    \/ \E id \in RowIds(mpmQuarterlyData) : MPMQuarterlyData_delete(id)

SpecDelete == InitPlan /\ [][NextDelete]_vars


\* a table without its soft-deleted rows
LiveOnly(table) == SelectSeq(table, LAMBDA row : ~row.is_deleted)

\* what a delete of id may do to its table: set the flag of a live row, or
\* fail with 404 and change nothing
DeleteOutcome(table, tableNext, id) ==
    IF id \in LiveIds(table)
    THEN /\ last'.raised = "no"
         /\ tableNext = [table EXCEPT ![id].is_deleted = TRUE]
    ELSE /\ last'.raised = "HTTP_404"
         /\ tableNext = table

\* what an update of id does when id is no live row
UpdateOutcome(table, id) ==
    id \notin LiveIds(table) =>
        /\ last'.raised = "HTTP_404"
        /\ UNCHANGED <<scoreVars, planVars>>

DeletedRowsAbsent ==
    /\ \A p \in Ids(mpmActionPlans) :
            calculate_status(mpmQuarterlyData, p) =
            {status_table[row.target_value][row.actual_value] :
                row \in {LiveOnly(mpmQuarterlyData)[k] :
                            k \in latest_quarter(LiveOnly(mpmQuarterlyData),
                                    reported_deleted_too(LiveOnly(mpmQuarterlyData), p))}}
            \cup (IF reported_deleted_too(LiveOnly(mpmQuarterlyData), p) = {}
                  THEN {"On Track"} ELSE {})
    /\ last.op = "get_mpm_dashboard" =>
            \A b \in Buckets : \A item \in ItemsOf(b) :
                /\ item.indicator \in LiveIds(mpmIndicators)
                /\ item.actual = LatestActual(mpmActuals, item.indicator)

InitRace ==
    /\ periods = <<[type |-> "Monthly", year |-> 2025, period |-> "1",
                    status |-> "Draft", is_deleted |-> FALSE],
                   [type |-> "Quarterly", year |-> 2025, period |-> "1",
                    status |-> "Draft", is_deleted |-> FALSE]>>
    /\ bscIndicators = <<>>
    /\ bscActuals = <<>>
    /\ mpmIndicators = <<>>
    /\ mpmActuals = <<>>
    /\ mpmActionPlans = <<>>
    /\ mpmQuarterlyData = <<>>
    /\ mpmMonthlyTargets = <<>>
    /\ inflight = NoRequests
    /\ last = NoCall
    /\ response = NoResponse

raceTables ==
    <<bscIndicators, bscActuals, mpmIndicators, mpmActuals, mpmActionPlans,
      mpmQuarterlyData, mpmMonthlyTargets>>

\* the request has answered
Answered(r, raised) ==
    /\ last' = [op |-> "update_period_status", id |-> inflight[r].id,
                arg |-> [status |-> inflight[r].status], raised |-> raised]
    /\ inflight' = [inflight EXCEPT ![r].pc = "done"]

\* PeriodRepository.update_status, first statement: get_or_404(id)
update_status_get(r, id, status) ==
    /\ inflight[r].pc = "idle"
    /\ IF found(periods, id)
       THEN /\ inflight' = [inflight EXCEPT ![r] = [pc |-> "got", id |-> id,
                                                     status |-> status]]
            /\ UNCHANGED last
       ELSE /\ inflight' = [inflight EXCEPT ![r] = [pc |-> "done", id |-> id,
                                                     status |-> status]]
            /\ last' = [op |-> "update_period_status", id |-> id,
                        arg |-> [status |-> status], raised |-> "HTTP_404"]
    /\ UNCHANGED <<periods, raceTables, response>>

\* second statement: get_active_period() and the check on it (AttributeError
\* in the conflict branch, as in update_period_status)
update_status_check(r) ==
    /\ inflight[r].pc = "got"
    /\ \/ /\ inflight[r].status = "Active"
          /\ \E active_period \in get_active_period : active_period # inflight[r].id
          /\ Answered(r, "AttributeError")
       \/ /\ \/ inflight[r].status # "Active"
             \/ get_active_period = {}
             \/ \E active_period \in get_active_period : active_period = inflight[r].id
          /\ inflight' = [inflight EXCEPT ![r].pc = "checked"]
          /\ UNCHANGED last
    /\ UNCHANGED <<periods, raceTables, response>>

\* third statement: the UPDATE of the row's status, and the commit
update_status_commit(r) ==
    /\ inflight[r].pc = "checked"
    /\ periods' = [periods EXCEPT ![inflight[r].id].status = inflight[r].status]
    /\ Answered(r, "no")
    /\ UNCHANGED <<raceTables, response>>

NextRace ==
    \/ \E r \in 1..MaxRequests, id \in PeriodIds, status \in PeriodStatuses :
            update_status_get(r, id, status)
    \/ \E r \in 1..MaxRequests : update_status_check(r)
    \/ \E r \in 1..MaxRequests : update_status_commit(r)

SpecRace == InitRace /\ [][NextRace]_vars

\* C28: when the update_period_status requests have all finished, at most
\* one non-deleted period is Active.
C28_OneActiveAfterRace ==
    (\A r \in 1..MaxRequests : inflight[r].pc \in {"idle", "done"})
        => Cardinality(ActivePeriods) <= 1
====
